---- MODULE Spec2Model ----
(***************************************************************************)
(* Document ingestion and retrieval pipeline of morphic:                   *)
(*   - the extraction chain of AdvancedFileProcessor                       *)
(*     (processDocumentWithUnstructured and its methods),                  *)
(*   - file processing (AdvancedFileProcessor.process,                     *)
(*     DefaultFileProcessor.process, POST /api/attachments/process),       *)
(*   - the document services (AdvancedDocumentService,                     *)
(*     SimpleDocumentService) and the document search tool.                *)
(* Strings are modelled by what the code looks at: a file name by its      *)
(* extension class, a text by its paragraph lengths, an embedding by its   *)
(* dimension and its leading components.                                   *)
(***************************************************************************)
EXTENDS Integers, Sequences, FiniteSets, TLC

VARIABLES
    \* ---- extraction chain (processDocumentWithUnstructured) ----
    xpc,          \* position of the chain: "idle", "start", "loop", "waiting", "done"
    fileName,     \* originalName of the file handed to the chain
    fileContent,  \* the file's bytes, as the lengths of its paragraphs
    methods,      \* the local array `methods` (names, in push order)
    xi,           \* index of the for..of loop over methods
    attempts,     \* every extraction method invoked so far, in order
    lastError,    \* the local `lastError`
    elements,     \* the value the chain returned
    xthrew,       \* TRUE iff the chain rejected
    xfb,          \* outcome of the basic fallback's try block: "none" | "ok" | "threw"
    failures,     \* the methods whose request or call failed in this run
    \* ---- AdvancedFileProcessor.process, Redis and Qdrant ----
    apc,            \* position of process(): "idle", "mark", "read", ...
    runNo,          \* number of process() runs started on the file
    file,           \* the FileAttachment object handed to process()
    documentChunks, \* the local documentChunks
    vectors,        \* the local vectors of storeDocumentChunks
    bi,             \* the loop variable i of the batch loop (0-based)
    redis,          \* the hashes file:<id> and file:<id>:metadata
    collections,    \* TRUE iff Qdrant holds the collection document_chunks
    points,         \* the points of the collection
    qcalls,         \* Qdrant calls of the current run, by kind
    probe,          \* Qdrant as this run found it: "none" | "up" | "down" | "lost"
    redisFailed,    \* TRUE iff a Redis write of the current run failed
    returned,       \* how process() ended: "none" | "value" | "threw"
    searchResult,   \* what the last searchRelevantChunks returned
    \* ---- AdvancedDocumentService, SimpleDocumentService, search tool ----
    store,          \* uploads/chats/<chat>: the advanced documents, in readdir order
    chunksByChat,   \* SimpleDocumentService.chunksByChat of the chat
    dirExists,      \* TRUE iff the chat's directory exists
    simpleDocs,     \* number of documents uploaded to the simple service
    result,         \* what the last searchDocuments returned
    lastEmb,        \* the last getEmbeddings call of an upload: input and output
    \* ---- the chunkers (splitFixed, createChunks, chunkText, split*) ----
    spc,            \* position of the chunker: "idle" | "loop" | "done"
    fn,             \* the chunker that was called
    text,           \* its input text
    start,          \* its loop variable: start, startIndex or the unit index
    chunkList,      \* the local chunks
    iters,          \* loop iterations of the call so far
    \* ---- generateEnhancedContext ----
    cpc,            \* position of the call: "idle" | "done"
    messages,       \* the caller's array `messages`, as it is now
    input,          \* what that array held when it was handed over
    fileIds,        \* the argument fileIds
    relevantChunks, \* the local relevantChunks
    enhanced,       \* the array the call returned
    path,           \* the branch that answered: "none" | "empty" | "standard" | "advanced"
    \* ---- SimpleDocumentService under concurrent calls (one chat) ----
    tasks,            \* the calls in progress: operation, position and locals
    heap,             \* the chunk arrays ever created, by reference
    chunkMap,         \* chunksByChat.get(chatId) as a reference; 0 when unset
    initializedChats, \* TRUE iff initializedChats holds the chat
    chunksFile,       \* chunks.json (a missing file reads as no chunks)
    metadataFile,     \* metadata.json (a missing file reads as no records)
    uploadDir,        \* the documents whose file lies in the chat's directory
    embedder,         \* the module's embedder: 0 (null) or a model instance
    pipelineCalls,    \* number of pipeline(...) calls so far
    used,             \* the model instances embeddings were computed with
    started,          \* number of service calls started so far
    deleted,          \* the documents whose deleteDocument has returned
    \* ---- POST /api/attachments/process ----
    posts,            \* the requests in progress: position, locals and response
    posted,           \* number of requests received so far
    \* ---- file storage (storeFile, readFile, deleteFile) ----
    useFilesystem,    \* the module's flag
    memoryStorage,    \* the files held in memory: id and bytes
    disk,             \* the files under uploads/: id and bytes
    live,             \* the files storeFile has returned and deleteFile was not called for
    lastRead,         \* the last readFile: the attachment and what it answered
    filesStored,      \* number of storeFile calls so far
    \* ---- addFileToChatEnhanced ----
    rpc,              \* position of the call: "idle" | "loop" | "done"
    fileId,           \* the argument fileId
    retries,          \* the local retries
    success,          \* the local success
    tried,            \* the attempts of the call so far, by outcome
    answer,           \* what the call returned: "none" | "true" | "false" | "threw"
    chatFiles,        \* the set chat:<id>:files
    chatMeta          \* TRUE iff chat:<id>:meta has has_files

extVars == <<xpc, fileName, fileContent, methods, xi, attempts, lastError,
             elements, xthrew, xfb, failures>>

advVars == <<apc, runNo, file, documentChunks, vectors, bi, redis, collections,
             points, qcalls, probe, redisFailed, returned, searchResult>>

docVars == <<store, chunksByChat, dirExists, simpleDocs, result, lastEmb>>

splitVars == <<spc, fn, text, start, chunkList, iters>>

ctxVars == <<cpc, messages, input, fileIds, relevantChunks, enhanced, path>>

svcVars == <<tasks, heap, chunkMap, initializedChats, chunksFile, metadataFile,
             uploadDir, embedder, pipelineCalls, used, started, deleted>>

routeVars == <<posts, posted>>

\* what a request handler leaves alone of process()'s state: all but redis
advLocals == <<apc, runNo, file, documentChunks, vectors, bi, collections, points,
               qcalls, probe, redisFailed, returned, searchResult>>

storeVars == <<useFilesystem, memoryStorage, disk, live, lastRead, filesStored>>

retryVars == <<rpc, fileId, retries, success, tried, answer, chatFiles, chatMeta>>

vars == <<extVars, advVars, docVars, splitVars, ctxVars, svcVars, routeVars,
          storeVars, retryVars>>

\* no chunker has been called
SplitIdle ==
    /\ spc = "idle"
    /\ fn = "none"
    /\ text = <<>>
    /\ start = 0
    /\ chunkList = <<>>
    /\ iters = 0

\* the concurrent callers of the simple service
Tasks == {1, 2}

NoTask == [op |-> "none", pc |-> "idle", documentId |-> 0, n |-> 0, i |-> 0,
           chunks |-> 0, metadata |-> {}, model |-> 0]

\* a fresh SimpleDocumentService over an empty directory
SvcIdle ==
    /\ tasks = [t \in Tasks |-> NoTask]
    /\ heap = <<>>
    /\ chunkMap = 0
    /\ initializedChats = FALSE
    /\ chunksFile = <<>>
    /\ metadataFile = {}
    /\ uploadDir = {}
    /\ embedder = 0
    /\ pipelineCalls = 0
    /\ used = {}
    /\ started = 0
    /\ deleted = {}

\* the requests served at the same time
Requests == {1, 2}

NoResponse == [code |-> 0, status |-> "", error |-> "", message |-> ""]

NoFile == [status |-> "", error |-> "", extractedText |-> FALSE]

NoPost == [pc |-> "idle", fileAttachment |-> NoFile, read |-> "", wrote |-> FALSE,
           ran |-> FALSE, response |-> NoResponse]

\* no request has been received
RouteIdle ==
    /\ posts = [r \in Requests |-> NoPost]
    /\ posted = 0

NoRead == [id |-> 0, stored |-> 0, ok |-> TRUE, bytes |-> 0]

\* the storage module after loading, nothing stored
StoreIdle ==
    /\ useFilesystem \in BOOLEAN
    /\ memoryStorage = {}
    /\ disk = {}
    /\ live = {}
    /\ lastRead = NoRead
    /\ filesStored = 0

\* the storage module loaded with the filesystem usable
StoreQuiet == StoreIdle /\ useFilesystem

\* addFileToChatEnhanced has not been called; the chat has no files
RetryIdle ==
    /\ rpc = "idle"
    /\ fileId = 0
    /\ retries = 0
    /\ success = FALSE
    /\ tried = <<>>
    /\ answer = "none"
    /\ chatFiles = {}
    /\ chatMeta = FALSE

\* generateEnhancedContext has not been called
CtxIdle ==
    /\ cpc = "idle"
    /\ messages = <<>>
    /\ input = <<>>
    /\ fileIds = <<>>
    /\ relevantChunks = <<>>
    /\ enhanced = <<>>
    /\ path = "none"

----------------------------------------------------------------------------
(* Bounds of the model *)
MaxParas == 2

(* Program constants *)
maxChunkSize == 1000
PlaceholderLen == 40
PdfSummaryLen == 200

ParaLens == {0, 600, 900}
FileNames == {"a.pdf", "b.txt", "c.bin"}
RemoteCounts == {0, 1, 51}

SeqsUpTo(S, n) == UNION {[1..k -> S] : k \in 0..n}

Contents == SeqsUpTo(ParaLens, MaxParas)

----------------------------------------------------------------------------
(* fallbackProcessDocument: the basic format-aware fallback *)

IsPdf(name) == name = "a.pdf"
IsTextFile(name) == name = "b.txt"

HasText(content) == \E k \in 1..Len(content) : content[k] > 0

\* The paragraph loop: accumulates paragraphs into chunks of at most
\* maxChunkSize characters.  st = [chunks, cur, size, idx].
RECURSIVE ParagraphLoop(_, _, _)
ParagraphLoop(paras, k, st) ==
    IF k > Len(paras) THEN st
    ELSE LET p == paras[k] IN
         IF p = 0 THEN ParagraphLoop(paras, k + 1, st)
         ELSE LET flushed ==
                    IF st.size + p > maxChunkSize /\ st.size > 0
                    THEN [chunks |-> Append(st.chunks,
                                      [id |-> st.idx, len |-> st.size,
                                       page |-> ((st.idx + 1) \div 5) + 1]),
                          size |-> 0, idx |-> st.idx + 1]
                    ELSE st
              IN ParagraphLoop(paras, k + 1,
                    [flushed EXCEPT !.size = flushed.size + p + 2])

ChunkParagraphs(paras) ==
    LET st == ParagraphLoop(paras, 1, [chunks |-> <<>>, size |-> 0, idx |-> 0])
    IN IF st.size > 0
       THEN Append(st.chunks, [id |-> st.idx, len |-> st.size,
                               page |-> ((st.idx + 1) \div 5) + 1])
       ELSE st.chunks

TagChunks(chunks, tag, name) ==
    [k \in 1..Len(chunks) |->
        [id |-> chunks[k].id, len |-> chunks[k].len, page |-> chunks[k].page,
         tag |-> tag, file |-> name, error |-> FALSE]]

ErrorChunk(name) ==
    <<[id |-> "error-chunk", len |-> 60, page |-> 0,
       tag |-> "diagnostic", file |-> name, error |-> TRUE]>>

\* fallbackProcessDocument without the catch of line 441
fallbackWithoutCatch(name, content, pdfOk, tryThrows) ==
    IF tryThrows THEN [threw |-> TRUE, elems |-> <<>>]
    ELSE [threw |-> FALSE,
          elems |-> TagChunks(ChunkParagraphs(content), "content", name)]

\* pdfOk: pdf-parse succeeded; tryThrows: something in the try block threw
\* (Buffer.toString on an oversized buffer, split on a missing data.text).
\* The result is [threw, elems]: the catch of line 441 turns every throw into
\* the one error chunk, so threw is always FALSE.
fallbackProcessDocument(name, content, pdfOk, tryThrows) ==
    IF tryThrows THEN [threw |-> FALSE, elems |-> ErrorChunk(name)]
    ELSE [threw |-> FALSE,
          elems |->
            IF IsPdf(name)
            THEN IF pdfOk THEN TagChunks(ChunkParagraphs(content), "content", name)
                 ELSE TagChunks(ChunkParagraphs(<<PdfSummaryLen>>), "pdfsummary", name)
            ELSE IF IsTextFile(name)
                 THEN TagChunks(ChunkParagraphs(content), "content", name)
                 ELSE TagChunks(ChunkParagraphs(<<PlaceholderLen>>), "placeholder", name)]

\* The inputs of the fallback that the environment decides
CanThrowInTry(name) == IsPdf(name) \/ IsTextFile(name)

\* What an extraction service answers: n elements
RemoteElements(n, name) ==
    [k \in 1..n |-> [id |-> k - 1, len |-> 100, page |-> 1,
                     tag |-> "remote", file |-> name, error |-> FALSE]]

----------------------------------------------------------------------------
(* processDocumentWithUnstructured: the extraction chain *)

\* The array `methods` built from the environment flags (lines 115-180)
BuildMethods(useCloudApi, hasApiKey, enablePythonFallback, useDocling) ==
    (IF useCloudApi /\ hasApiKey THEN <<"cloud">> ELSE <<>>)
    \o <<"docker">>
    \o (IF enablePythonFallback THEN <<"python">> ELSE <<>>)
    \o (IF useDocling THEN <<"docling">> ELSE <<>>)

Range(f) == {f[k] : k \in DOMAIN f}

\* The chain ends by returning what the basic fallback returns
ReturnFallback(pdfOk, tryThrows, log, failedNow) ==
    LET r == fallbackProcessDocument(fileName, fileContent, pdfOk, tryThrows) IN
    /\ attempts' = log \o <<"fallback">>
    /\ elements' = r.elems
    /\ xthrew' = r.threw
    /\ xfb' = IF tryThrows THEN "threw" ELSE "ok"
    /\ failures' = failures \cup failedNow
                            \cup (IF tryThrows THEN {"fallback"} ELSE {})
    /\ xpc' = "done"

\* Lines 100-112 and 115-183: read the flags, skip or build the methods
ExtStart ==
    /\ xpc = "start"
    /\ \E skipUnstructured, forceSkipUnstructured, useCloudApi, hasApiKey,
          enablePythonFallback, useDocling \in BOOLEAN :
         IF forceSkipUnstructured \/ skipUnstructured
         THEN /\ \E pdfOk \in BOOLEAN, tryThrows \in BOOLEAN :
                    /\ tryThrows => CanThrowInTry(fileName)
                    /\ ReturnFallback(pdfOk, tryThrows, attempts, {})
              /\ UNCHANGED <<methods, xi, lastError>>
         ELSE /\ methods' = BuildMethods(useCloudApi, hasApiKey,
                                         enablePythonFallback, useDocling)
              /\ xi' = 1
              /\ lastError' = "null"
              /\ xpc' = "loop"
              /\ UNCHANGED <<attempts, elements, xthrew, xfb, failures>>
    /\ UNCHANGED <<fileName, fileContent>>
    /\ UNCHANGED <<advVars, docVars, splitVars, ctxVars, svcVars, routeVars, storeVars, retryVars>>

InLoop(name) == xpc = "loop" /\ xi <= Len(methods) /\ methods[xi] = name

\* processWithCloudApi whose catch answers with no elements
ExtTryCloudReturningNothing ==
    /\ InLoop("cloud")
    /\ \/ \E n \in RemoteCounts :
            /\ elements' = RemoteElements(n, fileName)
            /\ UNCHANGED failures
       \/ /\ elements' = <<>>
          /\ failures' = failures \cup {"cloud"}
    /\ attempts' = Append(attempts, "cloud")
    /\ xthrew' = FALSE
    /\ xpc' = "done"
    /\ UNCHANGED <<fileName, fileContent, methods, xi, lastError, xfb>>
    /\ UNCHANGED <<advVars, docVars, splitVars, ctxVars, svcVars, routeVars, storeVars, retryVars>>

\* processWithCloudApi (lines 332-358) as called from the loop: a failed
\* request is caught inside and answered by the basic fallback, so the loop
\* sees a success either way.
ExtTryCloud ==
    /\ InLoop("cloud")
    /\ \/ \E n \in RemoteCounts :
            /\ attempts' = Append(attempts, "cloud")
            /\ elements' = RemoteElements(n, fileName)
            /\ xthrew' = FALSE
            /\ xpc' = "done"
            /\ UNCHANGED <<lastError, xfb, failures>>
       \/ \E pdfOk \in BOOLEAN, tryThrows \in BOOLEAN :
            /\ tryThrows => CanThrowInTry(fileName)
            /\ ReturnFallback(pdfOk, tryThrows, Append(attempts, "cloud"), {"cloud"})
            /\ lastError' = lastError
    /\ UNCHANGED <<fileName, fileContent, methods, xi>>
    /\ UNCHANGED <<advVars, docVars, splitVars, ctxVars, svcVars, routeVars, storeVars, retryVars>>

\* The cloud service never answers: the request of lines 346-351 carries no
\* timeout, so the await of line 346 never settles
ExtCloudSilent ==
    /\ InLoop("cloud")
    /\ attempts' = Append(attempts, "cloud")
    /\ xpc' = "waiting"
    /\ UNCHANGED <<fileName, fileContent, methods, xi, lastError, elements,
                   xthrew, xfb, failures>>
    /\ UNCHANGED <<advVars, docVars, splitVars, ctxVars, svcVars, routeVars, storeVars, retryVars>>

\* A method that throws on failure (Docker API lines 128-163, Python wrapper
\* lines 212-281, Docling lines 287-327): lines 184-194 of the loop.  A
\* Docker API that never answers is a failure too: the request rejects after
\* the timeout of line 150
TryThrowingMethod(name) ==
    /\ InLoop(name)
    /\ attempts' = Append(attempts, name)
    /\ \/ \E n \in RemoteCounts :
            /\ elements' = RemoteElements(n, fileName)
            /\ xthrew' = FALSE
            /\ xpc' = "done"
            /\ UNCHANGED <<lastError, xi, failures>>
       \/ /\ lastError' = name
          /\ failures' = failures \cup {name}
          /\ xi' = xi + 1
          /\ UNCHANGED <<elements, xthrew, xpc>>
    /\ UNCHANGED <<fileName, fileContent, methods, xfb>>
    /\ UNCHANGED <<advVars, docVars, splitVars, ctxVars, svcVars, routeVars, storeVars, retryVars>>

ExtTryDocker == TryThrowingMethod("docker")
ExtTryPython == TryThrowingMethod("python")
ExtTryDocling == TryThrowingMethod("docling")

\* Lines 196-199: every method threw
ExtExhausted ==
    /\ xpc = "loop" /\ xi > Len(methods)
    /\ \E pdfOk \in BOOLEAN, tryThrows \in BOOLEAN :
         /\ tryThrows => CanThrowInTry(fileName)
         /\ ReturnFallback(pdfOk, tryThrows, attempts, {})
    /\ UNCHANGED <<fileName, fileContent, methods, xi, lastError>>
    /\ UNCHANGED <<advVars, docVars, splitVars, ctxVars, svcVars, routeVars, storeVars, retryVars>>

\* A caller hands a file to the chain
ExtCall(name, content) ==
    /\ xpc' = "start"
    /\ fileName' = name
    /\ fileContent' = content
    /\ methods' = <<>>
    /\ xi' = 0
    /\ attempts' = <<>>
    /\ lastError' = "null"
    /\ elements' = <<>>
    /\ xthrew' = FALSE
    /\ xfb' = "none"
    /\ failures' = {}

ExtInit ==
    /\ xpc \in {"start"}
    /\ fileName \in FileNames
    /\ fileContent \in Contents
    /\ methods = <<>>
    /\ xi = 0
    /\ attempts = <<>>
    /\ lastError = "null"
    /\ elements = <<>>
    /\ xthrew = FALSE
    /\ xfb = "none"
    /\ failures = {}


----------------------------------------------------------------------------
(* AdvancedFileProcessor.process with Redis and Qdrant *)

(* Bounds of the model *)
MaxAdvRuns == 2

(* Program constants *)
batchSize == 50
embeddingDimension == 1536

Min(a, b) == IF a < b THEN a ELSE b

\* updateFileMetadata (lines 650-679): hmset merges the fields it is given;
\* error is written only when the object carries one.
WriteFile(r, f) ==
    [r EXCEPT !.status = f.status,
              !.error = IF f.error # "" THEN f.error ELSE @,
              !.extractedText = IF f.extractedText THEN TRUE ELSE @]

\* the catch setting the status and leaving the error field as it was
CatchKeepingError(f, msg) == [f EXCEPT !.status = "failed"]

\* the catch of lines 80-86, up to the call of updateFileMetadata
Catch(f, msg) == [f EXCEPT !.status = "failed", !.error = msg]

\* createDocumentChunks (lines 460-475): one chunk per element, a fresh
\* uuid each (the run number and the index make it unique)
createDocumentChunks(elems, run) ==
    [k \in 1..Len(elems) |->
        [id |-> <<run, k>>, len |-> elems[k].len, position |-> k - 1,
         tag |-> elems[k].tag]]

\* lines 64-66: contents joined by a blank line; TRUE iff the result is a
\* non-empty string
JoinedNonEmpty(chunks) ==
    \/ Len(chunks) >= 2
    \/ Len(chunks) = 1 /\ chunks[1].len > 0

\* the unavailable branch returning before any record is pushed
PlaceholderVectorsNone(chunks) == <<>>

\* lines 550-560: a vector record without embedding for each chunk
PlaceholderVectors(chunks) ==
    [k \in 1..Len(chunks) |-> [chunkId |-> chunks[k].id, dim |-> 0]]

EmbeddedVectors(chunks, from, to) ==
    [k \in 1..(to - from + 1) |->
        [chunkId |-> chunks[from + k - 1].id, dim |-> embeddingDimension]]

BatchPoints(chunks, from, to) ==
    {[chunkId |-> chunks[k].id, dim |-> embeddingDimension] : k \in from..to}

AdvIdle ==
    /\ apc = "idle"
    /\ runNo = 0
    /\ file = [status |-> "pending", error |-> "", extractedText |-> FALSE]
    /\ documentChunks = <<>>
    /\ vectors = <<>>
    /\ bi = 0
    /\ redis = [status |-> "pending", error |-> "", extractedText |-> FALSE,
                chunkCount |-> -1]
    /\ collections = FALSE
    /\ points = {}
    /\ qcalls = [getCollections |-> 0, createCollection |-> 0, upsert |-> 0]
    /\ probe = "none"
    /\ redisFailed = FALSE
    /\ returned = "none"
    /\ searchResult = [threw |-> FALSE, hits |-> <<>>, storeUp |-> TRUE, run |-> 0]

ExtIdle ==
    /\ xpc = "idle"
    /\ methods = <<>>
    /\ xi = 0
    /\ attempts = <<>>
    /\ lastError = "null"
    /\ elements = <<>>
    /\ xthrew = FALSE
    /\ xfb = "none"
    /\ failures = {}

\* the chain has returned: its locals are gone
ExtForget ==
    /\ xpc' = "idle"
    /\ methods' = <<>>
    /\ xi' = 0
    /\ attempts' = <<>>
    /\ lastError' = "null"
    /\ elements' = <<>>
    /\ xthrew' = FALSE
    /\ xfb' = "none"
    /\ failures' = {}
    /\ UNCHANGED <<fileName, fileContent>>

\* A caller hands the stored file to process(); line 45
AdvBegin ==
    /\ apc \in {"idle", "done"}
    /\ runNo < MaxAdvRuns
    /\ runNo' = runNo + 1
    /\ file' = [status |-> "processing", error |-> redis.error,
                extractedText |-> redis.extractedText]
    /\ apc' = "mark"
    /\ documentChunks' = <<>>
    /\ vectors' = <<>>
    /\ bi' = 0
    /\ qcalls' = [getCollections |-> 0, createCollection |-> 0, upsert |-> 0]
    /\ probe' = "none"
    /\ redisFailed' = FALSE
    /\ returned' = "none"
    /\ searchResult' = [threw |-> FALSE, hits |-> <<>>, storeUp |-> TRUE, run |-> 0]
    /\ UNCHANGED <<redis, collections, points>>
    /\ UNCHANGED <<extVars, docVars, splitVars, ctxVars, svcVars, routeVars, storeVars, retryVars>>

\* A step of process() that throws: lines 80-84, the catch sets the object
\* to failed and calls updateFileMetadata
Throw(msg) ==
    /\ file' = Catch(file, msg)
    /\ apc' = "failsave"

\* line 46: the first updateFileMetadata resolves or rejects
AdvMark ==
    /\ apc = "mark"
    /\ \/ /\ redis' = WriteFile(redis, file)
          /\ apc' = "read"
          /\ UNCHANGED <<file, redisFailed>>
       \/ /\ Throw("Failed to update file metadata in Redis")
          /\ redisFailed' = TRUE
          /\ UNCHANGED redis
    /\ UNCHANGED <<runNo, documentChunks, vectors, bi, collections, points,
                   qcalls, probe, returned, searchResult>>
    /\ UNCHANGED <<extVars, docVars, splitVars, ctxVars, svcVars, routeVars, storeVars, retryVars>>

\* lines 49-52: the file is read and handed to the extraction chain
AdvRead ==
    /\ apc = "read"
    /\ \/ /\ ExtCall(fileName, fileContent)
          /\ apc' = "extract"
          /\ UNCHANGED file
       \/ /\ Throw("ENOENT")
          /\ UNCHANGED extVars
    /\ UNCHANGED <<runNo, documentChunks, vectors, bi, redis, collections,
                   points, qcalls, probe, redisFailed, returned, searchResult>>
    /\ UNCHANGED <<docVars, splitVars, ctxVars, svcVars, routeVars, storeVars, retryVars>>

\* lines 52-58: the chain returned; createDocumentChunks, then
\* storeDocumentChunks starts with the availability probe
AdvChunks ==
    /\ apc = "extract" /\ xpc = "done"
    /\ documentChunks' = createDocumentChunks(elements, runNo)
    /\ apc' = "probe"
    /\ UNCHANGED <<runNo, file, vectors, bi, redis, collections, points,
                   qcalls, probe, redisFailed, returned, searchResult>>
    /\ ExtForget
    /\ UNCHANGED <<docVars, splitVars, ctxVars, svcVars, routeVars, storeVars, retryVars>>

\* isQdrantAvailable (lines 634-643) and lines 545-562
AdvProbe ==
    /\ apc = "probe"
    /\ qcalls' = [qcalls EXCEPT !.getCollections = @ + 1]
    /\ \/ /\ probe' = "up"
          /\ apc' = "ensure"
          /\ UNCHANGED vectors
       \/ /\ probe' = "down"
          /\ vectors' = PlaceholderVectors(documentChunks)
          /\ apc' = "complete"
    /\ UNCHANGED <<runNo, file, documentChunks, bi, redis, collections, points,
                   redisFailed, returned, searchResult>>
    /\ UNCHANGED <<extVars, docVars, splitVars, ctxVars, svcVars, routeVars, storeVars, retryVars>>

\* ensureCollection (lines 482-500); its throw is caught at line 622, the
\* store was lost after the probe
AdvEnsure ==
    /\ apc = "ensure"
    /\ \/ \* getCollections rejects
          /\ qcalls' = [qcalls EXCEPT !.getCollections = @ + 1]
          /\ apc' = "complete"
          /\ probe' = "lost"
          /\ UNCHANGED <<collections, bi>>
       \/ \* the collection exists
          /\ collections
          /\ qcalls' = [qcalls EXCEPT !.getCollections = @ + 1]
          /\ apc' = "batch" /\ bi' = 0
          /\ UNCHANGED <<collections, probe>>
       \/ \* createCollection resolves
          /\ ~collections
          /\ qcalls' = [qcalls EXCEPT !.getCollections = @ + 1,
                                      !.createCollection = @ + 1]
          /\ collections' = TRUE
          /\ apc' = "batch" /\ bi' = 0
          /\ UNCHANGED probe
       \/ \* createCollection rejects
          /\ ~collections
          /\ qcalls' = [qcalls EXCEPT !.getCollections = @ + 1,
                                      !.createCollection = @ + 1]
          /\ apc' = "complete"
          /\ probe' = "lost"
          /\ UNCHANGED <<collections, bi>>
    /\ UNCHANGED <<runNo, file, documentChunks, vectors, redis, points,
                   redisFailed, returned, searchResult>>
    /\ UNCHANGED <<extVars, docVars, splitVars, ctxVars, svcVars, routeVars, storeVars, retryVars>>

\* the batch loop left at the first batch whose embedding fails
AdvBatchAborting ==
    /\ apc = "batch" /\ bi < Len(documentChunks)
    /\ LET from == bi + 1
           to == Min(bi + batchSize, Len(documentChunks))
       IN \/ /\ apc' = "complete"
             /\ UNCHANGED <<vectors, points, qcalls, bi>>
          \/ /\ vectors' = vectors \o EmbeddedVectors(documentChunks, from, to)
             /\ points' = points \cup BatchPoints(documentChunks, from, to)
             /\ qcalls' = [qcalls EXCEPT !.upsert = @ + 1]
             /\ bi' = bi + batchSize
             /\ UNCHANGED apc
          \/ /\ vectors' = vectors \o EmbeddedVectors(documentChunks, from, to)
             /\ qcalls' = [qcalls EXCEPT !.upsert = @ + 1]
             /\ bi' = bi + batchSize
             /\ UNCHANGED <<points, apc>>
    /\ UNCHANGED <<runNo, file, documentChunks, redis, collections, probe,
                   redisFailed, returned, searchResult>>
    /\ UNCHANGED <<extVars, docVars, splitVars, ctxVars, svcVars, routeVars, storeVars, retryVars>>

\* One iteration of the batch loop, lines 570-619
AdvBatch ==
    /\ apc = "batch" /\ bi < Len(documentChunks)
    /\ LET from == bi + 1
           to == Min(bi + batchSize, Len(documentChunks))
       IN \/ \* createEmbeddings throws: the batch is skipped
             /\ UNCHANGED <<vectors, points, qcalls>>
          \/ \* embedded, upsert resolves
             /\ vectors' = vectors \o EmbeddedVectors(documentChunks, from, to)
             /\ points' = points \cup BatchPoints(documentChunks, from, to)
             /\ qcalls' = [qcalls EXCEPT !.upsert = @ + 1]
          \/ \* embedded, upsert rejects
             /\ vectors' = vectors \o EmbeddedVectors(documentChunks, from, to)
             /\ qcalls' = [qcalls EXCEPT !.upsert = @ + 1]
             /\ UNCHANGED points
    /\ bi' = bi + batchSize
    /\ UNCHANGED <<apc, runNo, file, documentChunks, redis, collections, probe,
                   redisFailed, returned, searchResult>>
    /\ UNCHANGED <<extVars, docVars, splitVars, ctxVars, svcVars, routeVars, storeVars, retryVars>>

\* line 621: the loop is over
AdvBatchesDone ==
    /\ apc = "batch" /\ bi >= Len(documentChunks)
    /\ apc' = "complete"
    /\ UNCHANGED <<runNo, file, documentChunks, vectors, bi, redis, collections,
                   points, qcalls, probe, redisFailed, returned, searchResult>>
    /\ UNCHANGED <<extVars, docVars, splitVars, ctxVars, svcVars, routeVars, storeVars, retryVars>>

\* lines 61-69: the object becomes completed, updateFileMetadata is called
AdvComplete ==
    /\ apc = "complete"
    /\ file' = [file EXCEPT !.status = "completed",
                            !.extractedText = JoinedNonEmpty(documentChunks)]
    /\ apc' = "save"
    /\ UNCHANGED <<runNo, documentChunks, vectors, bi, redis, collections, points,
                   qcalls, probe, redisFailed, returned, searchResult>>
    /\ UNCHANGED <<extVars, docVars, splitVars, ctxVars, svcVars, routeVars, storeVars, retryVars>>

\* line 69: that updateFileMetadata resolves or rejects
AdvSave ==
    /\ apc = "save"
    /\ \/ /\ redis' = WriteFile(redis, file)
          /\ apc' = "count"
          /\ UNCHANGED <<file, redisFailed>>
       \/ /\ Throw("Failed to update file metadata in Redis")
          /\ redisFailed' = TRUE
          /\ UNCHANGED redis
    /\ UNCHANGED <<runNo, documentChunks, vectors, bi, collections, points,
                   qcalls, probe, returned, searchResult>>
    /\ UNCHANGED <<extVars, docVars, splitVars, ctxVars, svcVars, routeVars, storeVars, retryVars>>

\* lines 72-79: the chunk count is written, process() returns
AdvCount ==
    /\ apc = "count"
    /\ \/ /\ redis' = [redis EXCEPT !.chunkCount = Len(documentChunks)]
          /\ apc' = "done"
          /\ returned' = "value"
          /\ UNCHANGED <<file, redisFailed>>
       \/ /\ Throw("hmset failed")
          /\ redisFailed' = TRUE
          /\ UNCHANGED <<redis, returned>>
    /\ UNCHANGED <<runNo, documentChunks, vectors, bi, collections, points,
                   qcalls, probe, searchResult>>
    /\ UNCHANGED <<extVars, docVars, splitVars, ctxVars, svcVars, routeVars, storeVars, retryVars>>

\* lines 84-85: the updateFileMetadata of the catch resolves or rejects,
\* process() rejects either way
AdvFailSave ==
    /\ apc = "failsave"
    /\ \/ /\ redis' = WriteFile(redis, file)
          /\ UNCHANGED redisFailed
       \/ /\ redisFailed' = TRUE
          /\ UNCHANGED redis
    /\ apc' = "done"
    /\ returned' = "threw"
    /\ UNCHANGED <<runNo, file, documentChunks, vectors, bi, collections, points,
                   qcalls, probe, searchResult>>
    /\ UNCHANGED <<extVars, docVars, splitVars, ctxVars, svcVars, routeVars, storeVars, retryVars>>

\* searchRelevantChunks (lines 690-743): the query is embedded, Qdrant is
\* searched; every failure is caught and answered by the empty list
searchRelevantChunks(embedOk, storeUp, found) ==
    IF embedOk /\ storeUp
    THEN [threw |-> FALSE, hits |-> found, storeUp |-> TRUE]
    ELSE [threw |-> FALSE, hits |-> <<>>, storeUp |-> storeUp]

\* what Qdrant may answer a search with: nothing, or a stored point
SearchHits ==
    IF points = {} THEN {<<>>}
    ELSE {<<>>, <<CHOOSE p \in points : \A q \in points :
                        p.chunkId[1] > q.chunkId[1]
                        \/ (p.chunkId[1] = q.chunkId[1] /\ p.chunkId[2] <= q.chunkId[2])>>}

AdvSearch ==
    /\ apc = "done"
    /\ \E embedOk \in BOOLEAN, storeUp \in BOOLEAN, found \in SearchHits :
         LET r == searchRelevantChunks(embedOk, storeUp, found) IN
         searchResult' = [threw |-> r.threw, hits |-> r.hits,
                          storeUp |-> r.storeUp,
                          run |-> runNo]
    /\ UNCHANGED <<apc, runNo, file, documentChunks, vectors, bi, redis,
                   collections, points, qcalls, probe, redisFailed, returned>>
    /\ UNCHANGED <<extVars, docVars, splitVars, ctxVars, svcVars, routeVars, storeVars, retryVars>>


----------------------------------------------------------------------------
(* The chunkers over characters: splitFixed, chunkText, createChunks *)

(* Bounds of the model *)
MaxIter == 4

(* Program constants *)
chunkSize == 1000
chunkOverlap == 200
splitMaxChunkSize == 1000
splitOverlap == 200

\* A text is its length and the positions (0-based) of its spaces; a piece
\* of it is the interval [from, to) of the positions it holds.
Max(a, b) == IF a > b THEN a ELSE b
Clamp(x, len) == Max(0, Min(x, len))

\* String.prototype.slice(a, b): a negative index counts from the end
SliceIv(len, a, b) ==
    LET from == IF a < 0 THEN Max(len + a, 0) ELSE Min(a, len)
        to == IF b < 0 THEN Max(len + b, 0) ELSE Min(b, len)
    IN [from |-> from, to |-> Max(from, to)]

\* String.prototype.substring(a, b): indices are clamped, then ordered
SubstringIv(len, a, b) ==
    [from |-> Min(Clamp(a, len), Clamp(b, len)),
     to |-> Max(Clamp(a, len), Clamp(b, len))]

\* String.prototype.indexOf(' ', from) and lastIndexOf(' ', from)
IndexOfSpace(t, from) ==
    LET S == {p \in t.spaces : p >= from}
    IN IF S = {} THEN -1 ELSE CHOOSE p \in S : \A q \in S : p <= q

LastIndexOfSpace(t, from) ==
    LET S == {p \in t.spaces : p <= Max(from, 0)}
    IN IF S = {} THEN -1 ELSE CHOOSE p \in S : \A q \in S : q <= p

\* String.prototype.trim on a piece
RECURSIVE TrimIv(_, _)
TrimIv(t, iv) ==
    IF iv.from >= iv.to THEN [from |-> iv.from, to |-> iv.from]
    ELSE IF iv.from \in t.spaces THEN TrimIv(t, [iv EXCEPT !.from = @ + 1])
    ELSE IF (iv.to - 1) \in t.spaces THEN TrimIv(t, [iv EXCEPT !.to = @ - 1])
    ELSE iv

IvLen(iv) == iv.to - iv.from

PlainLens == {0, 1, 200, 1000, 1001, 1700, 2500}
PlainTexts == {[len |-> l, spaces |-> {}] : l \in PlainLens}

SpacedTexts ==
    {[len |-> 0, spaces |-> {}], [len |-> 100, spaces |-> {}],
     [len |-> 100, spaces |-> {50}], [len |-> 1500, spaces |-> {1010}],
     [len |-> 1500, spaces |-> {1}], [len |-> 1500, spaces |-> {900}],
     [len |-> 1500, spaces |-> {1200}], [len |-> 1000, spaces |-> {999}]}

\* a chunker is entered with its locals initialised
Enter(name, t) ==
    /\ spc = "idle"
    /\ spc' = "loop"
    /\ fn' = name
    /\ text' = t
    /\ start' = 0
    /\ chunkList' = <<>>
    /\ iters' = 0
    /\ UNCHANGED <<extVars, advVars, docVars, ctxVars, svcVars, routeVars, storeVars, retryVars>>

Running(name) == spc = "loop" /\ fn = name

Leave ==
    /\ spc' = "done"
    /\ UNCHANGED <<fn, text, start, chunkList, iters>>
    /\ UNCHANGED <<extVars, advVars, docVars, ctxVars, svcVars, routeVars, storeVars, retryVars>>

\* AdvancedDocumentService.splitFixed (lines 246-257)
SplitFixedCall ==
    \E t \in PlainTexts :
        /\ Enter("splitFixed", t)

SplitFixedStep ==
    /\ Running("splitFixed") /\ start < text.len
    /\ iters < MaxIter
    /\ LET end == Min(start + splitMaxChunkSize, text.len) IN
         /\ chunkList' = Append(chunkList, SliceIv(text.len, start, end))
         /\ start' = end - splitOverlap
    /\ iters' = iters + 1
    /\ UNCHANGED <<spc, fn, text>>
    /\ UNCHANGED <<extVars, advVars, docVars, ctxVars, svcVars, routeVars, storeVars, retryVars>>

SplitFixedReturn == Running("splitFixed") /\ start >= text.len /\ Leave

\* chunkText of simple-document-service.ts (lines 88-99)
ChunkTextCall ==
    \E t \in PlainTexts :
        /\ Enter("chunkText", t)

\* the loop advancing by the whole window
ChunkTextStepNoOverlap ==
    /\ Running("chunkText") /\ start < text.len
    /\ iters < MaxIter
    /\ LET end == start + chunkSize IN
         /\ chunkList' = Append(chunkList, SliceIv(text.len, start, end))
         /\ start' = end
    /\ iters' = iters + 1
    /\ UNCHANGED <<spc, fn, text>>
    /\ UNCHANGED <<extVars, advVars, docVars, ctxVars, svcVars, routeVars, storeVars, retryVars>>

ChunkTextStep ==
    /\ Running("chunkText") /\ start < text.len
    /\ iters < MaxIter
    /\ LET end == start + chunkSize IN
         /\ chunkList' = Append(chunkList, SliceIv(text.len, start, end))
         /\ start' = end - chunkOverlap
    /\ iters' = iters + 1
    /\ UNCHANGED <<spc, fn, text>>
    /\ UNCHANGED <<extVars, advVars, docVars, ctxVars, svcVars, routeVars, storeVars, retryVars>>

ChunkTextReturn == Running("chunkText") /\ start >= text.len /\ Leave

\* DefaultFileProcessor.createChunks (file-processor.ts lines 127-185);
\* lines 133-135 return at once for an empty text
CreateChunksCall ==
    \E t \in SpacedTexts :
        /\ Enter("createChunks", t)

\* lines 143-159: the end index of the window starting at startIndex
EndIndex(t, startIndex) ==
    LET endIndex == startIndex + chunkSize IN
    IF endIndex < t.len
    THEN LET nextSpace == IndexOfSpace(t, endIndex)
             lastSpace == LastIndexOfSpace(t, endIndex)
         IN IF nextSpace # -1 /\ nextSpace - endIndex < 50 THEN nextSpace
            ELSE IF lastSpace > startIndex THEN lastSpace
            ELSE endIndex
    ELSE t.len

\* lines 175-181: the next start index
NextStartIndex(startIndex, endIndex) ==
    IF endIndex - chunkOverlap <= endIndex - (chunkSize \div 2)
    THEN endIndex
    ELSE endIndex - chunkOverlap

CreateChunksStep ==
    /\ Running("createChunks") /\ text.len > 0 /\ start < text.len
    /\ iters < MaxIter
    /\ LET endIndex == EndIndex(text, start)
           chunkContent == TrimIv(text, SubstringIv(text.len, start, endIndex))
       IN /\ chunkList' = IF IvLen(chunkContent) > 0
                       THEN Append(chunkList, [from |-> chunkContent.from,
                                            to |-> chunkContent.to,
                                            position |-> start])
                       ELSE chunkList
          /\ start' = NextStartIndex(start, endIndex)
    /\ iters' = iters + 1
    /\ UNCHANGED <<spc, fn, text>>
    /\ UNCHANGED <<extVars, advVars, docVars, ctxVars, svcVars, routeVars, storeVars, retryVars>>

CreateChunksReturn ==
    /\ Running("createChunks")
    /\ text.len = 0 \/ start >= text.len
    /\ Leave

----------------------------------------------------------------------------
(* The chunkers over paragraphs and lines: splitSemantic, splitMarkdown,   *)
(* splitCode.  A string is a sequence of tokens: a run of plain characters *)
(* ("w": the characters from..to of the run id), a full stop ("dot"), a    *)
(* space ("sp"), a newline ("nl"), a header mark "# " ("hash") and a       *)
(* keyword with its space, "function " ("kw").                             *)

Tok(k, id, from, to) == [k |-> k, id |-> id, from |-> from, to |-> to]
W(id, n) == <<Tok("w", id, 0, n)>>
DOT == <<Tok("dot", 0, 0, 1)>>
SP == <<Tok("sp", 0, 0, 1)>>
NL == <<Tok("nl", 0, 0, 1)>>
HASH == <<Tok("hash", 0, 0, 2)>>
KW == <<Tok("kw", 0, 0, 9)>>

TokLen(t) == t.to - t.from

\* String.prototype.length
RECURSIVE StrLen(_)
StrLen(s) == IF s = <<>> THEN 0 ELSE TokLen(Head(s)) + StrLen(Tail(s))

IsWs(t) == t.k \in {"sp", "nl"}

\* the number of tokens of a kind in K that follow each other from index i
RECURSIVE Run(_, _, _)
Run(s, i, K) ==
    IF i > Len(s) \/ s[i].k \notin K THEN 0 ELSE 1 + Run(s, i + 1, K)

\* the length of the match of /\n\n+/ at token i (0: none)
ParaMatch(s) ==
    [i \in 1..Len(s) |-> IF Run(s, i, {"nl"}) >= 2 THEN Run(s, i, {"nl"}) ELSE 0]

\* the length of the match of /[.!?]+\s+/ at token i
SentMatch(s) ==
    [i \in 1..Len(s) |->
        LET d == Run(s, i, {"dot"})
            w == Run(s, i + d, {"sp", "nl"})
        IN IF d >= 1 /\ w >= 1 THEN d + w ELSE 0]

\* the match of '\n' at token i
LineMatch(s) == [i \in 1..Len(s) |-> IF s[i].k = "nl" THEN 1 ELSE 0]

\* the match of /\n(?=#{1,6} )/ and of /\n(?=(?:function|class|...)\s)/
BeforeMatch(s, kind) ==
    [i \in 1..Len(s) |->
        IF s[i].k = "nl" /\ i < Len(s) /\ s[i + 1].k = kind THEN 1 ELSE 0]

\* String.prototype.split with the matches m
RECURSIVE SplitGo(_, _, _, _, _)
SplitGo(s, m, i, piece, acc) ==
    IF i > Len(s) THEN Append(acc, piece)
    ELSE IF m[i] > 0 THEN SplitGo(s, m, i + m[i], <<>>, Append(acc, piece))
    ELSE SplitGo(s, m, i + 1, Append(piece, s[i]), acc)

SplitBy(s, m) == SplitGo(s, m, 1, <<>>, <<>>)

\* Array.prototype.join
RECURSIVE Join(_, _)
Join(pieces, sep) ==
    IF pieces = <<>> THEN <<>>
    ELSE IF Len(pieces) = 1 THEN pieces[1]
    ELSE pieces[1] \o sep \o Join(Tail(pieces), sep)

\* String.prototype.trim
RECURSIVE Trim(_)
Trim(s) ==
    IF s = <<>> THEN s
    ELSE IF IsWs(s[1]) THEN Trim(Tail(s))
    ELSE IF IsWs(s[Len(s)]) THEN Trim(SubSeq(s, 1, Len(s) - 1))
    ELSE s

\* String.prototype.slice(-n), n > 0: the last n characters
RECURSIVE TailChars(_, _)
TailChars(s, n) ==
    IF s = <<>> \/ n <= 0 THEN <<>>
    ELSE LET t == s[Len(s)] IN
         IF TokLen(t) <= n
         THEN TailChars(SubSeq(s, 1, Len(s) - 1), n - TokLen(t)) \o <<t>>
         ELSE <<Tok("w", t.id, t.to - n, t.to)>>

\* Array.prototype.slice(-n)
LastN(a, n) == SubSeq(a, Max(1, Len(a) - n + 1), Len(a))

NonEmpty(c) == StrLen(c) > 0

\* The loop of lines 226-236 over the paragraphs from index k on;
\* st = [chunks, cur]
RECURSIVE SemanticLoop(_, _, _, _)
SemanticLoop(paragraphs, k, st, maxSize) ==
    IF k > Len(paragraphs) THEN st
    ELSE LET paragraph == paragraphs[k]
             currentChunk == st.cur
         IN IF StrLen(currentChunk) + StrLen(paragraph) > maxSize
               /\ StrLen(currentChunk) > 0
            THEN LET sentences == SplitBy(currentChunk, SentMatch(currentChunk))
                     overlapSentences == Join(LastN(sentences, 2), DOT \o SP)
                 IN SemanticLoop(paragraphs, k + 1,
                       [chunks |-> Append(st.chunks, Trim(currentChunk)),
                        cur |-> overlapSentences
                                \o (IF overlapSentences # <<>> THEN DOT \o SP ELSE <<>>)
                                \o paragraph],
                       maxSize)
            ELSE SemanticLoop(paragraphs, k + 1,
                       [st EXCEPT !.cur = currentChunk
                                   \o (IF currentChunk # <<>> THEN NL \o NL ELSE <<>>)
                                   \o paragraph],
                       maxSize)

\* the loop that flushes when the chunk is full to the limit already
RECURSIVE SemanticLoopAtLimit(_, _, _, _)
SemanticLoopAtLimit(paragraphs, k, st, maxSize) ==
    IF k > Len(paragraphs) THEN st
    ELSE LET paragraph == paragraphs[k]
             currentChunk == st.cur
         IN IF StrLen(currentChunk) + StrLen(paragraph) >= maxSize
               /\ StrLen(currentChunk) > 0
            THEN LET sentences == SplitBy(currentChunk, SentMatch(currentChunk))
                     overlapSentences == Join(LastN(sentences, 2), DOT \o SP)
                 IN SemanticLoopAtLimit(paragraphs, k + 1,
                       [chunks |-> Append(st.chunks, Trim(currentChunk)),
                        cur |-> overlapSentences
                                \o (IF overlapSentences # <<>> THEN DOT \o SP ELSE <<>>)
                                \o paragraph],
                       maxSize)
            ELSE SemanticLoopAtLimit(paragraphs, k + 1,
                       [st EXCEPT !.cur = currentChunk
                                   \o (IF currentChunk # <<>> THEN NL \o NL ELSE <<>>)
                                   \o paragraph],
                       maxSize)

\* lines 238-243: the last chunk is pushed, empty chunks are dropped
Finish(st) ==
    SelectSeq(IF st.cur # <<>> THEN Append(st.chunks, Trim(st.cur)) ELSE st.chunks,
              NonEmpty)

\* splitSemantic whose loop is SemanticLoopAtLimit
splitSemanticAtLimit(content, maxSize, overlap) ==
    Finish(SemanticLoopAtLimit(SplitBy(content, ParaMatch(content)), 1,
                               [chunks |-> <<>>, cur |-> <<>>], maxSize))

\* AdvancedDocumentService.splitSemantic (lines 220-244)
splitSemantic(content, maxSize, overlap) ==
    Finish(SemanticLoop(SplitBy(content, ParaMatch(content)), 1,
                        [chunks |-> <<>>, cur |-> <<>>], maxSize))

\* The loop of lines 168-176 over the paragraphs of an oversized section
RECURSIVE MarkdownLoop(_, _, _, _, _)
MarkdownLoop(paragraphs, k, st, maxSize, overlap) ==
    IF k > Len(paragraphs) THEN st
    ELSE LET paragraph == paragraphs[k]
             currentChunk == st.cur
         IN IF StrLen(currentChunk) + StrLen(paragraph) > maxSize
               /\ StrLen(currentChunk) > 0
            THEN MarkdownLoop(paragraphs, k + 1,
                    [chunks |-> Append(st.chunks, Trim(currentChunk)),
                     cur |-> TailChars(currentChunk, overlap) \o NL \o NL \o paragraph],
                    maxSize, overlap)
            ELSE MarkdownLoop(paragraphs, k + 1,
                    [st EXCEPT !.cur = currentChunk
                                \o (IF currentChunk # <<>> THEN NL \o NL ELSE <<>>)
                                \o paragraph],
                    maxSize, overlap)

\* lines 160-181: one section after another
RECURSIVE MarkdownSections(_, _, _, _, _)
MarkdownSections(sections, k, chunks, maxSize, overlap) ==
    IF k > Len(sections) THEN chunks
    ELSE LET section == sections[k] IN
         IF StrLen(section) <= maxSize
         THEN MarkdownSections(sections, k + 1, Append(chunks, Trim(section)),
                               maxSize, overlap)
         ELSE LET st == MarkdownLoop(SplitBy(section, ParaMatch(section)), 1,
                                     [chunks |-> chunks, cur |-> <<>>],
                                     maxSize, overlap)
              IN MarkdownSections(sections, k + 1,
                    IF st.cur # <<>> THEN Append(st.chunks, Trim(st.cur)) ELSE st.chunks,
                    maxSize, overlap)

\* AdvancedDocumentService.splitMarkdown (lines 155-185)
splitMarkdown(content, maxSize, overlap) ==
    SelectSeq(MarkdownSections(SplitBy(content, BeforeMatch(content, "hash")), 1,
                               <<>>, maxSize, overlap),
              NonEmpty)

\* The loop of lines 200-209 over the lines of an oversized block
RECURSIVE CodeLoop(_, _, _, _)
CodeLoop(lines, k, st, maxSize) ==
    IF k > Len(lines) THEN st
    ELSE LET line == lines[k]
             currentChunk == st.cur
         IN IF StrLen(currentChunk) + StrLen(line) > maxSize
               /\ StrLen(currentChunk) > 0
            THEN LET lastLines == Join(LastN(SplitBy(currentChunk,
                                                     LineMatch(currentChunk)), 3), NL)
                 IN CodeLoop(lines, k + 1,
                       [chunks |-> Append(st.chunks, Trim(currentChunk)),
                        cur |-> lastLines \o NL \o line],
                       maxSize)
            ELSE CodeLoop(lines, k + 1,
                       [st EXCEPT !.cur = currentChunk
                                   \o (IF currentChunk # <<>> THEN NL ELSE <<>>)
                                   \o line],
                       maxSize)

\* lines 192-214: one block after another
RECURSIVE CodeBlocks(_, _, _, _)
CodeBlocks(codeBlocks, k, chunks, maxSize) ==
    IF k > Len(codeBlocks) THEN chunks
    ELSE LET block == codeBlocks[k] IN
         IF StrLen(block) <= maxSize
         THEN CodeBlocks(codeBlocks, k + 1, Append(chunks, Trim(block)), maxSize)
         ELSE LET st == CodeLoop(SplitBy(block, LineMatch(block)), 1,
                                 [chunks |-> chunks, cur |-> <<>>], maxSize)
              IN CodeBlocks(codeBlocks, k + 1,
                    IF st.cur # <<>> THEN Append(st.chunks, Trim(st.cur)) ELSE st.chunks,
                    maxSize)

\* AdvancedDocumentService.splitCode (lines 187-218)
splitCode(content, maxSize, overlap) ==
    SelectSeq(CodeBlocks(SplitBy(content, BeforeMatch(content, "kw")), 1, <<>>, maxSize),
              NonEmpty)

(* Bounds of the model *)
MaxUnits == 3

\* the paragraphs a text is made of: their lengths are 600, 400, 900, 1200,
\* 100, 600, 400, 600 and 100 characters
Paragraphs ==
    <<W(1, 599) \o DOT,
      W(2, 198) \o DOT \o SP \o W(3, 199) \o DOT,
      W(4, 900),
      W(5, 1200),
      W(6, 100),
      W(7, 600),
      W(8, 400),
      HASH \o W(9, 598),
      HASH \o W(10, 98)>>

\* the lines of a source text: 300, 300, 600, 100 and 600 characters
Lines ==
    <<KW \o W(11, 291),
      SP \o SP \o W(12, 298),
      W(13, 600),
      W(14, 100),
      KW \o W(15, 591)>>

UnitSeqs(n) == UNION {[1..k -> 1..n] : k \in 0..MaxUnits}

ParaTexts == {Join([k \in 1..Len(u) |-> Paragraphs[u[k]]], NL \o NL) :
                 u \in UnitSeqs(Len(Paragraphs))}
LineTexts == {Join([k \in 1..Len(u) |-> Lines[u[k]]], NL) :
                 u \in UnitSeqs(Len(Lines))}

Strategies == {"auto", "markdown", "code", "semantic"}

HasKind(s, kind) == \E i \in 1..Len(s) : s[i].k = kind

\* lines 128-136 of splitText: the strategy 'auto' looks for 'function ' and
\* for '# ' in the content
ResolveStrategy(content, strategy) ==
    IF strategy = "auto"
    THEN IF HasKind(content, "kw") THEN "code"
         ELSE IF HasKind(content, "hash") THEN "markdown"
         ELSE "semantic"
    ELSE strategy

\* the maximum size splitText hands to the strategy (lines 138-152)
MaxSizeOf(strategy) ==
    IF strategy = "code" THEN splitMaxChunkSize \div 2 ELSE splitMaxChunkSize

\* AdvancedDocumentService.splitText (lines 123-153), strategy 'fixed' apart
splitText(content, strategy) ==
    LET resolved == ResolveStrategy(content, strategy) IN
    IF resolved = "markdown"
    THEN splitMarkdown(content, splitMaxChunkSize, splitOverlap)
    ELSE IF resolved = "code"
    THEN splitCode(content, splitMaxChunkSize \div 2, splitOverlap \div 2)
    ELSE splitSemantic(content, splitMaxChunkSize, splitOverlap)

\* the caller has taken the chunks: the locals of the call are gone
SplitForget ==
    /\ spc = "done"
    /\ spc' = "idle"
    /\ fn' = "none"
    /\ text' = <<>>
    /\ start' = 0
    /\ chunkList' = <<>>
    /\ iters' = 0
    /\ UNCHANGED <<extVars, advVars, docVars, ctxVars, svcVars, routeVars, storeVars, retryVars>>

SplitTextCall ==
    /\ spc = "idle"
    /\ \E content \in ParaTexts \cup LineTexts, strategy \in Strategies :
         /\ fn' = ResolveStrategy(content, strategy)
         /\ text' = content
         /\ chunkList' = splitText(content, strategy)
    /\ spc' = "done"
    /\ start' = 0
    /\ iters' = 0
    /\ UNCHANGED <<extVars, advVars, docVars, ctxVars, svcVars, routeVars, storeVars, retryVars>>

----------------------------------------------------------------------------
(* AdvancedDocumentService, SimpleDocumentService and documentSearchTool *)

(* Bounds of the model *)
MaxDocs == 2
MaxChunks == 1
MaxLong == 1

(* Program constants *)
embedBatchSize == 50
LocalDim == 384
CloudDim == 1536
Floor == 20
LongLen == embedBatchSize + 1

\* A text is one of NumTexts distinct strings.  An embedding is its length
\* (dim) and its first two components in units of 1/5, every other component
\* being 0; both models return unit vectors.  Similarities are in hundredths.
Unit == 5
Comps == <<<<5, 0>>, <<3, 4>>, <<3, -4>>>>
CloudComps == <<<<5, 0>>, <<4, 3>>, <<4, -3>>>>
Texts == 1..Len(Comps)

LocalVec(t) == [dim |-> LocalDim, c |-> Comps[((t - 1) % Len(Comps)) + 1]]
CloudVec(t) == [dim |-> CloudDim, c |-> CloudComps[((t - 1) % Len(CloudComps)) + 1]]

Dot(a, b) == a.c[1] * b.c[1] + a.c[2] * b.c[2]
Sqrt(n) == CHOOSE r \in 0..n : r * r = n
Magnitude(a) == Sqrt(Dot(a, a))

\* getLocalEmbeddings (lines 103-122): one vector per text, in order; rejects
\* when the model cannot be loaded
getLocalEmbeddings(texts, localOk) ==
    IF localOk
    THEN [threw |-> FALSE, vecs |-> [k \in 1..Len(texts) |-> LocalVec(texts[k])]]
    ELSE [threw |-> TRUE, vecs |-> <<>>]

\* The batch loop of lines 58-89; i is the 0-based loop variable, failAt the
\* number of the batch whose request fails (0: none)
RECURSIVE CloudBatches(_, _, _, _)
CloudBatches(texts, i, allEmbeddings, failAt) ==
    IF i >= Len(texts) THEN [ok |-> TRUE, vecs |-> allEmbeddings, at |-> i]
    ELSE IF (i \div embedBatchSize) + 1 = failAt
         THEN [ok |-> FALSE, vecs |-> allEmbeddings, at |-> i]
         ELSE LET n == Min(i + embedBatchSize, Len(texts)) - i
                  batchEmbeddings == [k \in 1..n |-> CloudVec(texts[i + k])]
              IN CloudBatches(texts, i + embedBatchSize,
                              allEmbeddings \o batchEmbeddings, failAt)

\* a failed batch keeps the vectors of the earlier batches and embeds only
\* the remaining texts locally
getEmbeddingsKeepingPartial(mode, hasKey, texts, failAt, localOk) ==
    IF mode = "cloud" /\ hasKey
    THEN LET r == CloudBatches(texts, 0, <<>>, failAt) IN
         IF r.ok THEN [threw |-> FALSE, vecs |-> r.vecs]
         ELSE LET rest == getLocalEmbeddings(SubSeq(texts, r.at + 1, Len(texts)), localOk)
              IN [threw |-> rest.threw,
                  vecs |-> IF rest.threw THEN <<>> ELSE r.vecs \o rest.vecs]
    ELSE getLocalEmbeddings(texts, localOk)

\* getEmbeddings (lines 40-101)
getEmbeddings(mode, hasKey, texts, failAt, localOk) ==
    IF mode = "cloud" /\ hasKey
    THEN LET r == CloudBatches(texts, 0, <<>>, failAt) IN
         IF r.ok THEN [threw |-> FALSE, vecs |-> r.vecs]
         ELSE getLocalEmbeddings(texts, localOk)
    ELSE getLocalEmbeddings(texts, localOk)

\* cosineSimilarity without the length check of lines 521-525
cosineSimilarityUnguarded(a, b) ==
    (Dot(a, b) * 100) \div (Magnitude(a) * Magnitude(b))

\* AdvancedDocumentService.cosineSimilarity (lines 519-531), in hundredths
cosineSimilarity(a, b) ==
    IF a.dim # b.dim THEN 0
    ELSE (Dot(a, b) * 100) \div (Magnitude(a) * Magnitude(b))

\* cosineSimilarity of simple-document-service.ts (lines 109-115): the dot
\* product alone, in hundredths
dotSimilarity(a, b) == (Dot(a, b) * 100) \div (Unit * Unit)

SetMax(S) == CHOOSE x \in S : \A y \in S : y <= x
SetMin(S) == CHOOSE x \in S : \A y \in S : x <= y

Similarities(s) == {s[k].similarity : k \in 1..Len(s)}

\* the comparator reversed: ascending
SortAscending(s) ==
    LET RECURSIVE Go(_)
        Go(V) == IF V = {} THEN <<>>
                 ELSE LET v == SetMin(V)
                          Is(h) == h.similarity = v
                      IN SelectSeq(s, Is) \o Go(V \ {v})
    IN Go(Similarities(s))

\* Array.prototype.sort with (a, b) => b.similarity - a.similarity: the
\* elements by descending similarity, equal ones in their order in s (the
\* sort is stable)
SortBySimilarity(s) ==
    LET RECURSIVE Go(_)
        Go(V) == IF V = {} THEN <<>>
                 ELSE LET v == SetMax(V)
                          Is(h) == h.similarity = v
                      IN SelectSeq(s, Is) \o Go(V \ {v})
    IN Go(Similarities(s))

\* Array.prototype.slice(0, limit)
Slice0(s, limit) ==
    LET n == IF limit >= 0 THEN Min(limit, Len(s))
             ELSE IF Len(s) + limit > 0 THEN Len(s) + limit ELSE 0
    IN SubSeq(s, 1, n)

RECURSIVE Flatten(_)
Flatten(ss) == IF ss = <<>> THEN <<>> ELSE Head(ss) \o Flatten(Tail(ss))

\* embedding_dims counted from the number of embeddings
EmbeddingDimsOfCount(embeddings) == Len(embeddings)

\* line 347: embeddings[0]?.length || 0
EmbeddingDims(embeddings) ==
    IF embeddings # <<>> THEN embeddings[1].dim ELSE 0

\* Lines 389-403: the first metadata file, in readdir order, that carries a
\* non-zero embedding_dims
DetectedDims(docs) ==
    IF \E k \in 1..Len(docs) : docs[k].embedding_dims # 0
    THEN docs[CHOOSE k \in 1..Len(docs) :
                 /\ docs[k].embedding_dims # 0
                 /\ \A j \in 1..(k - 1) : docs[j].embedding_dims = 0].embedding_dims
    ELSE 0

\* Lines 406-412
AdjustedMode(mode, dims) ==
    IF dims = CloudDim THEN "cloud" ELSE IF dims = LocalDim THEN "local" ELSE mode

\* Lines 418-448: the chunks of one document that pass the threshold
DocHits(doc, pos, q) ==
    IF ~doc.hasChunks THEN <<>>
    ELSE LET scored == [k \in 1..Len(doc.chunks) |->
                          [service |-> "advanced", pos |-> pos, chunk_index |-> k - 1,
                           similarity |-> cosineSimilarity(q, doc.chunks[k].embedding),
                           veclen |-> doc.chunks[k].embedding.dim]]
             Above(h) == h.similarity > Floor
         IN SelectSeq(scored, Above)

\* AdvancedDocumentService.searchDocuments (lines 378-460)
searchDocuments(docs, exists, mode, hasKey, query, limit, failAt, localOk) ==
    IF ~exists THEN [threw |-> FALSE, hits |-> <<>>, qdim |-> 0, embedded |-> FALSE]
    ELSE LET m == AdjustedMode(mode, DetectedDims(docs))
             e == getEmbeddings(m, hasKey, <<query>>, failAt, localOk)
         IN IF e.threw
            THEN [threw |-> TRUE, hits |-> <<>>, qdim |-> 0, embedded |-> FALSE]
            ELSE LET q == e.vecs[1]
                     allResults == Flatten([k \in 1..Len(docs) |-> DocHits(docs[k], k, q)])
                 IN [threw |-> FALSE,
                     hits |-> Slice0(SortBySimilarity(allResults), limit),
                     qdim |-> q.dim, embedded |-> TRUE]

\* SimpleDocumentService.searchDocuments (lines 240-282)
simpleSearchDocuments(chunks, query, limit, localOk) ==
    IF chunks = <<>> THEN [threw |-> FALSE, hits |-> <<>>, qdim |-> 0, embedded |-> FALSE]
    ELSE IF ~localOk
         THEN [threw |-> TRUE, hits |-> <<>>, qdim |-> 0, embedded |-> FALSE]
         ELSE LET q == LocalVec(query)
                  scored == [k \in 1..Len(chunks) |->
                               [service |-> "simple", pos |-> chunks[k].doc,
                                chunk_index |-> chunks[k].chunk_index,
                                similarity |-> dotSimilarity(q, chunks[k].embedding),
                                veclen |-> chunks[k].embedding.dim]]
              IN [threw |-> FALSE,
                  hits |-> Slice0(SortBySimilarity(scored), limit),
                  qdim |-> q.dim, embedded |-> TRUE]

\* the texts of the chunks of an uploaded document
\* a document of more chunks than one request embeds: its last chunk is text
\* 1, the others alternate between texts 2 and 3
LongTexts == [k \in 1..LongLen |-> IF k = LongLen THEN 1 ELSE 2 + (k % 2)]
ChunkTexts == SeqsUpTo(Texts, MaxChunks) \cup {LongTexts}
Limits == {-1, 0, 2}
\* the texts asked for
Queries == {1, 2}
Modes == {"local", "cloud"}

\* result: the service the tool used, what the service returned (threw, hits,
\* the length qdim of the query vector) and what the tool answered (success,
\* results)
NoResult == [service |-> "none", threw |-> FALSE, hits |-> <<>>, qdim |-> 0,
             embedded |-> FALSE, limit |-> 0, success |-> TRUE, results |-> <<>>]
NoEmb == [texts |-> <<>>, vecs |-> <<>>, threw |-> FALSE, failAt |-> 0,
          batches |-> 0, cloud |-> FALSE, called |-> FALSE]

DocIdle ==
    /\ store = <<>>
    /\ chunksByChat = <<>>
    /\ dirExists = FALSE
    /\ simpleDocs = 0
    /\ result = NoResult
    /\ lastEmb = NoEmb

InsertAt(s, k, x) == SubSeq(s, 1, k - 1) \o <<x>> \o SubSeq(s, k, Len(s))

\* the stored documents of more chunks than one request embeds
NumLong(docs) == Cardinality({d \in 1..Len(docs) : docs[d].chunk_count > embedBatchSize})

NumBatches(texts) == (Len(texts) + embedBatchSize - 1) \div embedBatchSize

\* AdvancedDocumentService.uploadDocument (lines 259-376).  written tells how
\* far the two writeFile calls got: "none" | "metadata" | "all"
Idle == result = NoResult /\ lastEmb = NoEmb

UploadDocument ==
    /\ Idle
    /\ Len(store) + simpleDocs < MaxDocs
    /\ \E mode \in Modes, hasKey \in BOOLEAN, texts \in ChunkTexts,
          failAt \in 0..2, localOk \in BOOLEAN,
          written \in {"none", "metadata", "all"},
          at \in 1..(Len(store) + 1) :
         LET e == getEmbeddings(mode, hasKey, texts, failAt, localOk)
             doc == [embedding_dims |-> EmbeddingDims(e.vecs),
                     chunk_count |-> Len(texts),
                     hasChunks |-> written = "all",
                     chunks |-> IF written = "all"
                                THEN [k \in 1..Len(texts) |->
                                        [content |-> texts[k], embedding |-> e.vecs[k]]]
                                ELSE <<>>]
         IN /\ failAt <= NumBatches(texts)
            /\ (mode = "local" \/ ~hasKey) => failAt = 0
            /\ Len(texts) > MaxChunks => NumLong(store) < MaxLong
            /\ lastEmb' = [texts |-> texts, vecs |-> e.vecs, threw |-> e.threw,
                           failAt |-> failAt, batches |-> NumBatches(texts),
                           cloud |-> (mode = "cloud" /\ hasKey), called |-> TRUE]
            /\ IF e.threw THEN UNCHANGED <<store, dirExists>>
               ELSE /\ dirExists' = TRUE
                    /\ store' = IF written = "none" THEN store
                                ELSE InsertAt(store, at, doc)
    /\ result' = NoResult
    /\ UNCHANGED <<chunksByChat, simpleDocs>>
    /\ UNCHANGED <<extVars, advVars, splitVars, ctxVars, svcVars, routeVars, storeVars, retryVars>>

\* SimpleDocumentService.uploadDocument (lines 150-238)
SimpleUploadDocument ==
    /\ Idle
    /\ Len(store) + simpleDocs < MaxDocs
    /\ \E texts \in SeqsUpTo(Texts, MaxChunks) :
         /\ chunksByChat' = chunksByChat \o
               [k \in 1..Len(texts) |->
                   [doc |-> simpleDocs + 1, chunk_index |-> k - 1,
                    content |-> texts[k], embedding |-> LocalVec(texts[k])]]
    /\ simpleDocs' = simpleDocs + 1
    /\ dirExists' = TRUE
    /\ result' = NoResult
    /\ lastEmb' = NoEmb
    /\ UNCHANGED store
    /\ UNCHANGED <<extVars, advVars, splitVars, ctxVars, svcVars, routeVars, storeVars, retryVars>>

\* documentSearchTool (file-processor.ts lines 201-274): the advanced service
\* when the directory holds a metadata file or the mode is cloud, otherwise
\* the simple one; an exception becomes an empty result
ToolService(docs, exists, processingMode) ==
    IF exists /\ (docs # <<>> \/ processingMode = "cloud")
    THEN "advanced" ELSE "simple"

DocumentSearchTool ==
    /\ Idle
    /\ \E processingMode \in Modes, hasKey \in BOOLEAN, query \in Queries,
          limit \in Limits, failAt \in 0..1, localOk \in BOOLEAN :
         LET svc == ToolService(store, dirExists, processingMode)
             r == IF svc = "advanced"
                  THEN searchDocuments(store, dirExists, "cloud", hasKey, query,
                                       limit, failAt, localOk)
                  ELSE simpleSearchDocuments(chunksByChat, query, limit, localOk)
         IN /\ ~hasKey => failAt = 0
            /\ result' = [service |-> svc, threw |-> r.threw, hits |-> r.hits,
                          qdim |-> r.qdim, embedded |-> r.embedded,
                          limit |-> limit, success |-> ~r.threw,
                          results |-> IF r.threw THEN <<>> ELSE r.hits]
            /\ dirExists' = (dirExists \/ svc = "simple")
    /\ lastEmb' = NoEmb
    /\ UNCHANGED <<store, chunksByChat, simpleDocs>>
    /\ UNCHANGED <<extVars, advVars, splitVars, ctxVars, svcVars, routeVars, storeVars, retryVars>>

\* the caller has taken the answer of the last call
DocReturn ==
    /\ ~Idle
    /\ result' = NoResult
    /\ lastEmb' = NoEmb
    /\ UNCHANGED <<store, chunksByChat, dirExists, simpleDocs>>
    /\ UNCHANGED <<extVars, advVars, splitVars, ctxVars, svcVars, routeVars, storeVars, retryVars>>

InitDoc ==
    /\ DocIdle /\ AdvIdle /\ ExtIdle /\ SplitIdle /\ CtxIdle /\ SvcIdle /\ RouteIdle /\ StoreQuiet /\ RetryIdle
    /\ fileName = "b.txt" /\ fileContent = <<>>

NextDoc == UploadDocument \/ SimpleUploadDocument \/ DocumentSearchTool
             \/ DocReturn

SpecDoc == InitDoc /\ [][NextDoc]_vars

----------------------------------------------------------------------------
(* generateEnhancedContext and searchRelevantChunks (src/unnamed/part_020, *)
(* lines 690-792) and their caller processFileAttachments                  *)
(* (src/lib/utils/attachment-utils.ts, lines 65-141).  A message is its id *)
(* and its role; the content of a context message is the list of what it   *)
(* quotes.  A score is in hundredths.                                      *)

MaxMsgs == 3

\* the limit generateEnhancedContext hands to searchRelevantChunks
contextLimit == 10

Roles == {"user", "assistant", "system"}

\* the conversations of at most MaxMsgs messages
Conversations ==
    UNION {{[k \in 1..n |-> [id |-> k, role |-> r[k], content |-> <<>>]] :
               r \in [1..n -> Roles]} : n \in 0..MaxMsgs}

\* what the collection holds for a query under the file filter, best first
Matches ==
    {<<>>,
     <<[chunkId |-> 1, score |-> 90]>>,
     <<[chunkId |-> 1, score |-> 10]>>,
     <<[chunkId |-> 1, score |-> 90], [chunkId |-> 2, score |-> 10]>>,
     [k \in 1..(contextLimit + 2) |-> [chunkId |-> k, score |-> 100 - 8 * k]]}

\* qdrantClient.search with { vector, limit, filter }: the best `limit` points
QdrantSearch(matches, limit) == SubSeq(matches, 1, Min(limit, Len(matches)))

\* findLastIndex(m => m.role === 'user'), 1-based; 0 when there is none
LastUserIndex(msgs) ==
    SetMax({0} \cup {k \in 1..Len(msgs) : msgs[k].role = "user"})

ContextMessage(quoted) == [id |-> 0, role |-> "system", content |-> quoted]

\* generateEnhancedContext placing the context message last
generateEnhancedContextAppending(msgs, ids, embedOk, storeUp, matches) ==
    LET chunks == searchRelevantChunks(embedOk, storeUp,
                                       QdrantSearch(matches, contextLimit)).hits
    IN IF Len(ids) = 0 \/ LastUserIndex(msgs) = 0 \/ Len(chunks) = 0
       THEN [messages |-> msgs, returned |-> msgs, relevantChunks |-> <<>>]
       ELSE [messages |-> msgs, returned |-> Append(msgs, ContextMessage(chunks)),
             relevantChunks |-> chunks]

\* generateEnhancedContext (lines 752-792): messages is what the caller's
\* array holds afterwards, returned the array handed back
generateEnhancedContext(msgs, ids, embedOk, storeUp, matches) ==
    LET Passed(chunks) ==
            [messages |-> msgs, returned |-> msgs, relevantChunks |-> chunks]
    IN IF Len(ids) = 0 THEN Passed(<<>>)
       ELSE IF LastUserIndex(msgs) = 0 THEN Passed(<<>>)
       ELSE LET chunks == searchRelevantChunks(embedOk, storeUp,
                              QdrantSearch(matches, contextLimit)).hits
                messagesWithContext == msgs
                lastUserIndex == LastUserIndex(messagesWithContext)
            IN IF Len(chunks) = 0 THEN Passed(chunks)
               ELSE [messages |-> msgs,
                     returned |-> InsertAt(messagesWithContext, lastUserIndex,
                                           ContextMessage(chunks)),
                     relevantChunks |-> chunks]

\* the attachments of a chat as Redis holds them: id and whether text was extracted
Attachments ==
    {<<>>,
     <<[id |-> 1, extractedText |-> TRUE]>>,
     <<[id |-> 1, extractedText |-> FALSE]>>,
     <<[id |-> 1, extractedText |-> TRUE], [id |-> 2, extractedText |-> FALSE]>>}

Ids(files) == [k \in 1..Len(files) |-> files[k].id]

WithText(files) == SelectSeq(files, LAMBDA f : f.extractedText)

\* getFileAttachmentsForChat (lines 14-56): a Redis failure is answered by []
getFileAttachmentsForChat(files, redisUp) == IF redisUp THEN files ELSE <<>>

\* processFileAttachments (lines 65-141)
processFileAttachments(msgs, files, redisUp, useAdvancedProcessor, embedOk, storeUp, matches) ==
    LET fileAttachments == getFileAttachmentsForChat(files, redisUp)
        fileContexts == Ids(WithText(fileAttachments))
        lastUserMessageIndex == LastUserIndex(msgs)
    IN IF Len(fileAttachments) = 0
       THEN [messages |-> msgs, returned |-> msgs, relevantChunks |-> <<>>,
             fileIds |-> <<>>, path |-> "empty"]
       ELSE IF useAdvancedProcessor
       THEN LET r == generateEnhancedContext(msgs, Ids(fileAttachments),
                                             embedOk, storeUp, matches)
            IN [messages |-> r.messages, returned |-> r.returned,
                relevantChunks |-> r.relevantChunks,
                fileIds |-> Ids(fileAttachments), path |-> "advanced"]
       ELSE [messages |-> msgs,
             returned |-> IF Len(fileContexts) = 0 THEN msgs
                          ELSE IF lastUserMessageIndex > 0
                          THEN InsertAt(msgs, lastUserMessageIndex,
                                        ContextMessage(fileContexts))
                          ELSE <<ContextMessage(fileContexts)>> \o msgs,
             relevantChunks |-> <<>>, fileIds |-> <<>>, path |-> "standard"]

\* a direct call of generateEnhancedContext
GenerateEnhancedContext ==
    /\ cpc = "idle"
    /\ \E msgs \in Conversations, ids \in {<<>>, <<1>>, <<1, 2>>},
          embedOk \in BOOLEAN, storeUp \in BOOLEAN, matches \in Matches :
         LET r == generateEnhancedContext(msgs, ids, embedOk, storeUp, matches)
         IN /\ input' = msgs
            /\ messages' = r.messages
            /\ fileIds' = ids
            /\ relevantChunks' = r.relevantChunks
            /\ enhanced' = r.returned
    /\ path' = "advanced"
    /\ cpc' = "done"
    /\ UNCHANGED <<extVars, advVars, docVars, splitVars, svcVars, routeVars, storeVars, retryVars>>

ProcessFileAttachments ==
    /\ cpc = "idle"
    /\ \E msgs \in Conversations, files \in Attachments, redisUp \in BOOLEAN,
          useAdvancedProcessor \in BOOLEAN,
          embedOk \in BOOLEAN, storeUp \in BOOLEAN, matches \in Matches :
         LET r == processFileAttachments(msgs, files, redisUp, useAdvancedProcessor,
                                         embedOk, storeUp, matches)
         IN /\ input' = msgs
            /\ messages' = r.messages
            /\ fileIds' = r.fileIds
            /\ relevantChunks' = r.relevantChunks
            /\ enhanced' = r.returned
            /\ path' = r.path
    /\ cpc' = "done"
    /\ UNCHANGED <<extVars, advVars, docVars, splitVars, svcVars, routeVars, storeVars, retryVars>>

\* the caller takes the answer
CtxReturn ==
    /\ cpc = "done"
    /\ cpc' = "idle"
    /\ messages' = <<>>
    /\ input' = <<>>
    /\ fileIds' = <<>>
    /\ relevantChunks' = <<>>
    /\ enhanced' = <<>>
    /\ path' = "none"
    /\ UNCHANGED <<extVars, advVars, docVars, splitVars, svcVars, routeVars, storeVars, retryVars>>

----------------------------------------------------------------------------
(* SimpleDocumentService under concurrent calls                            *)
(* (src/lib/services/simple-document-service.ts).  The calls run on one    *)
(* event loop: a call runs alone from one await to the next, and any call  *)
(* in progress may be the next to resume.  An action is one such stretch.  *)
(* Arrays are held by reference, as the code holds them.  A file is read   *)
(* or written at the step that issues the request.                         *)

MaxCalls == 3

\* the number of chunks chunkText makes of an uploaded file
ChunkCounts == {1, 2}

\* the array chunksByChat holds for the chat
InMemory == IF chunkMap = 0 THEN <<>> ELSE heap[chunkMap]

DocumentIds(records) == {r.id : r \in records}

\* initialize (lines 126-142) up to its first await: TRUE once the chat is known
InitializedAtCall == IF initializedChats THEN "ready" ELSE "load"

\* uploadDocument is called (line 150)
UploadDocumentCall ==
    /\ started < MaxCalls
    /\ \E t \in Tasks, n \in ChunkCounts :
         /\ tasks[t].op = "none"
         /\ tasks' = [tasks EXCEPT ![t] =
                         [NoTask EXCEPT !.op = "upload", !.pc = InitializedAtCall,
                                        !.documentId = started + 1, !.n = n]]
    /\ started' = started + 1
    /\ UNCHANGED <<heap, chunkMap, initializedChats, chunksFile, metadataFile,
                   uploadDir, embedder, pipelineCalls, used, deleted>>
    /\ UNCHANGED <<extVars, advVars, docVars, splitVars, ctxVars, routeVars, storeVars, retryVars>>

\* deleteDocument is called for a listed document (line 300)
DeleteDocumentCall ==
    /\ started < MaxCalls
    /\ \E t \in Tasks, d \in DocumentIds(metadataFile) \ deleted :
         /\ tasks[t].op = "none"
         /\ \A u \in Tasks : ~(tasks[u].op = "delete" /\ tasks[u].documentId = d)
         /\ tasks' = [tasks EXCEPT ![t] =
                         [NoTask EXCEPT !.op = "delete", !.pc = InitializedAtCall,
                                        !.documentId = d]]
    /\ started' = started + 1
    /\ UNCHANGED <<heap, chunkMap, initializedChats, chunksFile, metadataFile,
                   uploadDir, embedder, pipelineCalls, used, deleted>>
    /\ UNCHANGED <<extVars, advVars, docVars, splitVars, ctxVars, routeVars, storeVars, retryVars>>

\* initialize, lines 129-141: chunks.json is read and its content (or [])
\* becomes the chat's array
Initialize ==
    /\ \E t \in Tasks :
         /\ tasks[t].pc = "load"
         /\ tasks' = [tasks EXCEPT ![t].pc = "ready"]
    /\ heap' = Append(heap, chunksFile)
    /\ chunkMap' = Len(heap) + 1
    /\ initializedChats' = TRUE
    /\ UNCHANGED <<chunksFile, metadataFile, uploadDir, embedder, pipelineCalls,
                   used, started, deleted>>
    /\ UNCHANGED <<extVars, advVars, docVars, splitVars, ctxVars, routeVars, storeVars, retryVars>>

\* the for loop of lines 192-206 at its test, then lines 207-210: the next
\* generateEmbedding is called (getEmbedder, lines 33-38, up to its await),
\* or the array is set and saved
LoopOrSave(t, r, h) ==
    IF r.i < r.n
    THEN /\ IF embedder = 0
            THEN /\ pipelineCalls' = pipelineCalls + 1
                 /\ tasks' = [tasks EXCEPT ![t] =
                                 [r EXCEPT !.pc = "pipeline",
                                           !.model = pipelineCalls + 1]]
            ELSE /\ pipelineCalls' = pipelineCalls
                 /\ tasks' = [tasks EXCEPT ![t] =
                                 [r EXCEPT !.pc = "embed", !.model = embedder]]
         /\ UNCHANGED <<chunkMap, chunksFile>>
    ELSE /\ chunkMap' = r.chunks
         /\ chunksFile' = h[r.chunks]
         /\ tasks' = [tasks EXCEPT ![t] = [r EXCEPT !.pc = "meta"]]
         /\ pipelineCalls' = pipelineCalls

\* uploadDocument, lines 157-193: the file is written and parsed, the chat's
\* array is taken
UploadTakeArray ==
    /\ \E t \in Tasks :
         /\ tasks[t].op = "upload" /\ tasks[t].pc = "ready"
         /\ uploadDir' = uploadDir \cup {tasks[t].documentId}
         /\ heap' = IF chunkMap = 0 THEN Append(heap, <<>>) ELSE heap
         /\ LET ref == IF chunkMap = 0 THEN Len(heap) + 1 ELSE chunkMap
            IN LoopOrSave(t, [tasks[t] EXCEPT !.chunks = ref], heap')
    /\ UNCHANGED <<initializedChats, metadataFile, embedder, used, started, deleted>>
    /\ UNCHANGED <<extVars, advVars, docVars, splitVars, ctxVars, routeVars, storeVars, retryVars>>

\* getEmbedder, lines 35-37: pipeline(...) has answered
UploadPipeline ==
    /\ \E t \in Tasks :
         /\ tasks[t].op = "upload" /\ tasks[t].pc = "pipeline"
         /\ embedder' = tasks[t].model
         /\ tasks' = [tasks EXCEPT ![t].pc = "embed"]
    /\ UNCHANGED <<heap, chunkMap, initializedChats, chunksFile, metadataFile,
                   uploadDir, pipelineCalls, used, started, deleted>>
    /\ UNCHANGED <<extVars, advVars, docVars, splitVars, ctxVars, routeVars, storeVars, retryVars>>

\* lines 104-105 and 194-206: the embedding is there, the chunk is pushed
UploadPush ==
    /\ \E t \in Tasks :
         /\ tasks[t].op = "upload" /\ tasks[t].pc = "embed"
         /\ used' = used \cup {tasks[t].model}
         /\ LET r == tasks[t]
                chunk == [document_id |-> r.documentId, chunk_index |-> r.i]
            IN /\ heap' = [heap EXCEPT ![r.chunks] = Append(@, chunk)]
               /\ LoopOrSave(t, [r EXCEPT !.i = r.i + 1], heap')
    /\ UNCHANGED <<initializedChats, metadataFile, uploadDir, embedder, started,
                   deleted>>
    /\ UNCHANGED <<extVars, advVars, docVars, splitVars, ctxVars, routeVars, storeVars, retryVars>>

\* lines 226-233: metadata.json is read
UploadReadMetadata ==
    /\ \E t \in Tasks :
         /\ tasks[t].op = "upload" /\ tasks[t].pc = "meta"
         /\ tasks' = [tasks EXCEPT ![t].metadata = metadataFile, ![t].pc = "write"]
    /\ UNCHANGED <<heap, chunkMap, initializedChats, chunksFile, metadataFile,
                   uploadDir, embedder, pipelineCalls, used, started, deleted>>
    /\ UNCHANGED <<extVars, advVars, docVars, splitVars, ctxVars, routeVars, storeVars, retryVars>>

\* metadata[documentId] = doc
WithRecord(records, doc) == {r \in records : r.id # doc.id} \cup {doc}

\* lines 234-237: the record is added and metadata.json written
UploadWriteMetadata ==
    /\ \E t \in Tasks :
         /\ tasks[t].op = "upload" /\ tasks[t].pc = "write"
         /\ metadataFile' = WithRecord(tasks[t].metadata,
                                       [id |-> tasks[t].documentId,
                                        chunk_count |-> tasks[t].n])
         /\ tasks' = [tasks EXCEPT ![t] = NoTask]
    /\ UNCHANGED <<heap, chunkMap, initializedChats, chunksFile, uploadDir,
                   embedder, pipelineCalls, used, started, deleted>>
    /\ UNCHANGED <<extVars, advVars, docVars, splitVars, ctxVars, routeVars, storeVars, retryVars>>

\* chunks.filter(chunk => chunk.document_id !== documentId)
FilterOut(chunks, d) == SelectSeq(chunks, LAMBDA c : c.document_id # d)

\* deleteDocument, lines 304-307: a filtered copy becomes the chat's array
\* and is saved
DeleteChunks ==
    /\ \E t \in Tasks :
         /\ tasks[t].op = "delete" /\ tasks[t].pc = "ready"
         /\ LET filteredChunks == FilterOut(InMemory, tasks[t].documentId)
            IN /\ heap' = Append(heap, filteredChunks)
               /\ chunkMap' = Len(heap) + 1
               /\ chunksFile' = filteredChunks
         /\ tasks' = [tasks EXCEPT ![t].pc = "meta"]
    /\ UNCHANGED <<initializedChats, metadataFile, uploadDir, embedder,
                   pipelineCalls, used, started, deleted>>
    /\ UNCHANGED <<extVars, advVars, docVars, splitVars, ctxVars, routeVars, storeVars, retryVars>>

\* lines 311-313: metadata.json is read
DeleteReadMetadata ==
    /\ \E t \in Tasks :
         /\ tasks[t].op = "delete" /\ tasks[t].pc = "meta"
         /\ tasks' = [tasks EXCEPT ![t].metadata = metadataFile, ![t].pc = "write"]
    /\ UNCHANGED <<heap, chunkMap, initializedChats, chunksFile, metadataFile,
                   uploadDir, embedder, pipelineCalls, used, started, deleted>>
    /\ UNCHANGED <<extVars, advVars, docVars, splitVars, ctxVars, routeVars, storeVars, retryVars>>

\* lines 314-315: the record is removed and metadata.json written
DeleteWriteMetadata ==
    /\ \E t \in Tasks :
         /\ tasks[t].op = "delete" /\ tasks[t].pc = "write"
         /\ metadataFile' = {r \in tasks[t].metadata : r.id # tasks[t].documentId}
         /\ tasks' = [tasks EXCEPT ![t].pc = "unlink"]
    /\ UNCHANGED <<heap, chunkMap, initializedChats, chunksFile, uploadDir,
                   embedder, pipelineCalls, used, started, deleted>>
    /\ UNCHANGED <<extVars, advVars, docVars, splitVars, ctxVars, routeVars, storeVars, retryVars>>

\* lines 321-326: the document's file is unlinked and deleteDocument returns
DeleteFile ==
    /\ \E t \in Tasks :
         /\ tasks[t].op = "delete" /\ tasks[t].pc = "unlink"
         /\ uploadDir' = uploadDir \ {tasks[t].documentId}
         /\ deleted' = deleted \cup {tasks[t].documentId}
         /\ tasks' = [tasks EXCEPT ![t] = NoTask]
    /\ UNCHANGED <<heap, chunkMap, initializedChats, chunksFile, metadataFile,
                   embedder, pipelineCalls, used, started>>
    /\ UNCHANGED <<extVars, advVars, docVars, splitVars, ctxVars, routeVars, storeVars, retryVars>>

----------------------------------------------------------------------------
(* POST /api/attachments/process (src/app/api/attachments/process/route.ts) *)
(* with the processor createFileProcessor() returns, DefaultFileProcessor   *)
(* (src/lib/utils/file-processor.ts).  The requests share one event loop;   *)
(* an action is the stretch of one handler from one await to the next.  The *)
(* stored hash file:<id> is the variable redis.  An absent field is "".     *)

MaxPosts == 3

\* createChunks (file-processor.ts, lines 127-185) does not return on a
\* non-empty text: the event loop is held for good
Hung == \E r \in Requests : posts[r].pc = "hung"

\* getFileMetadata (lines 12-31): the stored hash, or null
getFileMetadata(r, redisUp) ==
    IF redisUp
    THEN [status |-> r.status, error |-> r.error, extractedText |-> r.extractedText]
    ELSE NoFile

\* updateFileMetadata (lines 36-55): every field is handed to hmset; keeps
\* tells whether the client leaves a stored field alone when it is handed
\* undefined
updateFileMetadata(r, f, keeps) ==
    [r EXCEPT !.status = f.status,
              !.error = IF f.error # "" THEN f.error
                        ELSE IF keeps THEN @ ELSE "",
              !.extractedText = IF f.extractedText THEN TRUE
                                ELSE IF keeps THEN @ ELSE FALSE]

\* lines 81-96 answering a failed file like any other
SkipResponseCompletedOnly(f) ==
    IF f.status = "completed"
    THEN [code |-> 200, status |-> "completed", error |-> "",
          message |-> "File already processed"]
    ELSE NoResponse

\* lines 81-96: the answer for a file that is completed or failed
SkipResponse(f) ==
    IF f.status = "completed"
    THEN [code |-> 200, status |-> "completed", error |-> "",
          message |-> "File already processed"]
    ELSE IF f.status = "failed"
    THEN [code |-> 422, status |-> "failed",
          error |-> IF f.error # "" THEN f.error ELSE "Processing previously failed",
          message |-> ""]
    ELSE NoResponse

\* the catch of lines 118-124, up to the call of updateFileMetadata
RouteCatch(f, msg) == [f EXCEPT !.status = "failed", !.error = msg]

\* DefaultFileProcessor.extractText (lines 53-110) on the stored file: what
\* it throws, or whether the text it returns is non-empty
ExtractOutcomes(name, content) ==
    {[threw |-> TRUE, msg |-> "ENOENT", text |-> FALSE]}
    \cup (IF IsPdf(name)
          THEN {[threw |-> TRUE, msg |-> "Failed to extract text from PDF",
                 text |-> FALSE]}
               \cup {[threw |-> FALSE, msg |-> "", text |-> b] : b \in BOOLEAN}
          ELSE IF IsTextFile(name)
          THEN {[threw |-> FALSE, msg |-> "", text |-> HasText(content)]}
          ELSE {[threw |-> TRUE, msg |-> "Unsupported file type", text |-> FALSE]})

\* a request arrives: lines 60-69
Post ==
    /\ ~Hung
    /\ posted < MaxPosts
    /\ posted' = posted + 1
    /\ \E r \in Requests, body \in {"fileId", "empty", "invalid"} :
         /\ posts[r].pc = "idle"
         /\ posts' = [posts EXCEPT ![r] =
              IF body = "fileId" THEN [NoPost EXCEPT !.pc = "read"]
              ELSE IF body = "empty"
              THEN [NoPost EXCEPT !.pc = "done",
                                  !.response = [NoResponse EXCEPT !.code = 400,
                                                   !.error = "File ID is required"]]
              ELSE [NoPost EXCEPT !.pc = "done",
                                  !.response = [NoResponse EXCEPT !.code = 500,
                                                   !.error = "Failed to process file"]]]
    /\ UNCHANGED <<redis, advLocals>>
    /\ UNCHANGED <<extVars, docVars, splitVars, ctxVars, svcVars, storeVars, retryVars>>

\* lines 72-104: the metadata is read; the request is answered, or the file
\* object is set to processing and updateFileMetadata called
RouteRead ==
    /\ ~Hung
    /\ \E r \in Requests, redisUp \in BOOLEAN :
         /\ posts[r].pc = "read"
         /\ LET f == getFileMetadata(redis, redisUp)
            IN posts' = [posts EXCEPT ![r] =
                 IF f = NoFile
                 THEN [@ EXCEPT !.pc = "done",
                                !.response = [NoResponse EXCEPT !.code = 404,
                                                 !.error = "File not found"]]
                 ELSE IF SkipResponse(f) # NoResponse
                 THEN [@ EXCEPT !.pc = "done", !.read = f.status,
                                !.fileAttachment = f,
                                !.response = SkipResponse(f)]
                 ELSE [@ EXCEPT !.pc = "mark", !.read = f.status,
                                !.fileAttachment = [f EXCEPT !.status = "processing"]]]
    /\ UNCHANGED <<posted, redis, advLocals>>
    /\ UNCHANGED <<extVars, docVars, splitVars, ctxVars, svcVars, storeVars, retryVars>>

\* lines 104-107 and file-processor.ts lines 20-26: the status is stored and
\* process() called, or the write rejects and the catch is entered
RouteMark ==
    /\ ~Hung
    /\ \E r \in Requests :
         /\ posts[r].pc = "mark"
         /\ \/ \E keeps \in BOOLEAN :
                 /\ redis' = updateFileMetadata(redis, posts[r].fileAttachment, keeps)
                 /\ posts' = [posts EXCEPT ![r].pc = "extract", ![r].wrote = TRUE,
                                           ![r].ran = TRUE]
            \/ /\ posts' = [posts EXCEPT ![r].pc = "failsave",
                              ![r].fileAttachment = RouteCatch(@, "Redis error")]
               /\ UNCHANGED redis
    /\ UNCHANGED <<posted, advLocals>>
    /\ UNCHANGED <<extVars, docVars, splitVars, ctxVars, svcVars, storeVars, retryVars>>

\* file-processor.ts lines 26-44 and lines 110-111, 118-124: extractText
\* answers; createChunks returns for an empty text only
RouteExtract ==
    /\ ~Hung
    /\ \E r \in Requests, o \in ExtractOutcomes(fileName, fileContent) :
         /\ posts[r].pc = "extract"
         /\ posts' = [posts EXCEPT ![r] =
              IF o.threw
              THEN [@ EXCEPT !.pc = "failsave",
                             !.fileAttachment = RouteCatch(@, o.msg)]
              ELSE [@ EXCEPT !.pc = IF o.text THEN "hung" ELSE "save",
                             !.fileAttachment = [@ EXCEPT !.status = "completed",
                                                          !.extractedText = o.text]]]
    /\ UNCHANGED <<posted, redis, advLocals>>
    /\ UNCHANGED <<extVars, docVars, splitVars, ctxVars, svcVars, storeVars, retryVars>>

\* lines 111-117: the completed status is stored and the request answered,
\* or the write rejects and the catch is entered
RouteSave ==
    /\ ~Hung
    /\ \E r \in Requests :
         /\ posts[r].pc = "save"
         /\ \/ \E keeps \in BOOLEAN :
                 /\ redis' = updateFileMetadata(redis, posts[r].fileAttachment, keeps)
                 /\ posts' = [posts EXCEPT ![r].pc = "done", ![r].wrote = TRUE,
                                ![r].response = [NoResponse EXCEPT !.code = 200,
                                                    !.status = "completed"]]
            \/ /\ posts' = [posts EXCEPT ![r].pc = "failsave",
                              ![r].fileAttachment = RouteCatch(@, "Redis error")]
               /\ UNCHANGED redis
    /\ UNCHANGED <<posted, advLocals>>
    /\ UNCHANGED <<extVars, docVars, splitVars, ctxVars, svcVars, storeVars, retryVars>>

\* lines 124-138: the failed status is stored and the request answered, or
\* the write rejects and the outer catch answers
RouteFailSave ==
    /\ ~Hung
    /\ \E r \in Requests :
         /\ posts[r].pc = "failsave"
         /\ \/ \E keeps \in BOOLEAN :
                 /\ redis' = updateFileMetadata(redis, posts[r].fileAttachment, keeps)
                 /\ posts' = [posts EXCEPT ![r].pc = "done", ![r].wrote = TRUE,
                                ![r].response = [NoResponse EXCEPT !.code = 500,
                                                    !.status = "failed",
                                                    !.error = posts[r].fileAttachment.error]]
            \/ /\ posts' = [posts EXCEPT ![r].pc = "done",
                                ![r].response = [NoResponse EXCEPT !.code = 500,
                                                    !.error = "Failed to process file"]]
               /\ UNCHANGED redis
    /\ UNCHANGED <<posted, advLocals>>
    /\ UNCHANGED <<extVars, docVars, splitVars, ctxVars, svcVars, storeVars, retryVars>>

\* the response has been sent
RouteAnswered ==
    /\ ~Hung
    /\ \E r \in Requests :
         /\ posts[r].pc = "done"
         /\ posts' = [posts EXCEPT ![r] = NoPost]
    /\ UNCHANGED <<posted, redis, advLocals>>
    /\ UNCHANGED <<extVars, docVars, splitVars, ctxVars, svcVars, storeVars, retryVars>>

----------------------------------------------------------------------------
(* File storage (src/unnamed/part_021): storeFile, readFile, deleteFile and *)
(* ensureUploadDirectory.  A file is its id and its bytes.                  *)

MaxFiles == 3

Bytes == {1, 2}

Held(files, id) == \E f \in files : f.id = id

BytesOf(files, id) == (CHOOSE f \in files : f.id = id).bytes

\* ensureUploadDirectory (lines 35-52): the value of useFilesystem afterwards
ensureUploadDirectory(uses, mkdirOk) == uses /\ mkdirOk

\* storeFile (lines 62-112): written to disk, or kept in memory when the
\* module is in memory mode or the directory or the write fails
storeFile(f, mkdirOk, writeOk) ==
    IF useFilesystem /\ ensureUploadDirectory(useFilesystem, mkdirOk) /\ writeOk
    THEN [useFilesystem |-> TRUE, memoryStorage |-> memoryStorage,
          disk |-> disk \cup {f}]
    ELSE [useFilesystem |-> FALSE, memoryStorage |-> memoryStorage \cup {f},
          disk |-> disk]

\* readFile (lines 130-148): the bytes, or a rejection
readFile(f) ==
    IF Held(memoryStorage, f.id)
    THEN [ok |-> TRUE, bytes |-> BytesOf(memoryStorage, f.id)]
    ELSE IF useFilesystem /\ Held(disk, f.id)
    THEN [ok |-> TRUE, bytes |-> BytesOf(disk, f.id)]
    ELSE [ok |-> FALSE, bytes |-> 0]

StoreFile ==
    /\ filesStored < MaxFiles
    /\ \E b \in Bytes, mkdirOk \in BOOLEAN, writeOk \in BOOLEAN :
         LET f == [id |-> filesStored + 1, bytes |-> b]
             r == storeFile(f, mkdirOk, writeOk)
         IN /\ useFilesystem' = r.useFilesystem
            /\ memoryStorage' = r.memoryStorage
            /\ disk' = r.disk
            /\ live' = live \cup {f}
    /\ filesStored' = filesStored + 1
    /\ UNCHANGED lastRead
    /\ UNCHANGED <<extVars, advVars, docVars, splitVars, ctxVars, svcVars,
                   routeVars, retryVars>>

\* ensureUploadDirectory called on its own
EnsureUploadDirectory ==
    /\ \E mkdirOk \in BOOLEAN :
         useFilesystem' = ensureUploadDirectory(useFilesystem, mkdirOk)
    /\ UNCHANGED <<memoryStorage, disk, live, lastRead, filesStored>>
    /\ UNCHANGED <<extVars, advVars, docVars, splitVars, ctxVars, svcVars,
                   routeVars, retryVars>>

\* readFile on the attachment of a stored file
ReadFile ==
    /\ \E f \in live :
         lastRead' = [id |-> f.id, stored |-> f.bytes, ok |-> readFile(f).ok,
                      bytes |-> readFile(f).bytes]
    /\ UNCHANGED <<useFilesystem, memoryStorage, disk, live, filesStored>>
    /\ UNCHANGED <<extVars, advVars, docVars, splitVars, ctxVars, svcVars,
                   routeVars, retryVars>>

\* deleteFile (lines 155-176): from memory, else from disk when the module
\* uses the filesystem
DeleteStoredFile ==
    /\ \E f \in live :
         /\ live' = live \ {f}
         /\ IF Held(memoryStorage, f.id)
            THEN /\ memoryStorage' = {g \in memoryStorage : g.id # f.id}
                 /\ UNCHANGED disk
            ELSE /\ disk' = IF useFilesystem THEN {g \in disk : g.id # f.id} ELSE disk
                 /\ UNCHANGED memoryStorage
         /\ lastRead' = IF lastRead.id = f.id THEN NoRead ELSE lastRead
    /\ UNCHANGED <<useFilesystem, filesStored>>
    /\ UNCHANGED <<extVars, advVars, docVars, splitVars, ctxVars, svcVars,
                   routeVars, retryVars>>

----------------------------------------------------------------------------
(* addFileToChatEnhanced (src/lib/utils/file-processor-enhancements.ts,    *)
(* lines 71-106)                                                           *)

maxRetries == 3

FileIds == {1, 2}

\* the loop test with the success flag left out
RetryingRegardless == retries < maxRetries

\* the loop test of line 80
Retrying == retries < maxRetries /\ ~success

\* lines 72-79: the client promise settles; a rejection is caught at line 102
AddFileToChatEnhanced ==
    /\ rpc = "idle"
    /\ \E id \in FileIds, redisReady \in BOOLEAN :
         /\ fileId' = id
         /\ rpc' = IF redisReady THEN "loop" ELSE "done"
         /\ answer' = IF redisReady THEN "none" ELSE "false"
    /\ retries' = 0
    /\ success' = FALSE
    /\ tried' = <<>>
    /\ UNCHANGED <<chatFiles, chatMeta>>
    /\ UNCHANGED <<extVars, advVars, docVars, splitVars, ctxVars, svcVars,
                   routeVars, storeVars>>

\* lines 81-98: one attempt: sadd and hmset both resolve, or one of them
\* rejects and the attempt is counted
AddAttempt ==
    /\ rpc = "loop" /\ Retrying
    /\ \E outcome \in {"ok", "sadd", "hmset"} :
         /\ tried' = Append(tried, outcome)
         /\ chatFiles' = IF outcome = "sadd" THEN chatFiles
                         ELSE chatFiles \cup {fileId}
         /\ chatMeta' = (chatMeta \/ outcome = "ok")
         /\ success' = (outcome = "ok")
         /\ retries' = IF outcome = "ok" THEN retries ELSE retries + 1
    /\ UNCHANGED <<rpc, fileId, answer>>
    /\ UNCHANGED <<extVars, advVars, docVars, splitVars, ctxVars, svcVars,
                   routeVars, storeVars>>

\* line 101: the loop is left and success returned
AddReturn ==
    /\ rpc = "loop" /\ ~Retrying
    /\ answer' = IF success THEN "true" ELSE "false"
    /\ rpc' = "done"
    /\ UNCHANGED <<fileId, retries, success, tried, chatFiles, chatMeta>>
    /\ UNCHANGED <<extVars, advVars, docVars, splitVars, ctxVars, svcVars,
                   routeVars, storeVars>>

\* the caller has taken the answer
AddForget ==
    /\ rpc = "done"
    /\ rpc' = "idle"
    /\ fileId' = 0
    /\ retries' = 0
    /\ success' = FALSE
    /\ tried' = <<>>
    /\ answer' = "none"
    /\ UNCHANGED <<chatFiles, chatMeta>>
    /\ UNCHANGED <<extVars, advVars, docVars, splitVars, ctxVars, svcVars,
                   routeVars, storeVars>>

----------------------------------------------------------------------------
(* Specifications *)

\* The chain on its own: one file after another
ExtAgain ==
    /\ xpc = "done"
    /\ \E name \in FileNames, content \in Contents : ExtCall(name, content)
    /\ UNCHANGED <<advVars, docVars, splitVars, ctxVars, svcVars, routeVars, storeVars, retryVars>>

NextExt == ExtStart \/ ExtTryCloud \/ ExtCloudSilent \/ ExtTryDocker \/ ExtTryPython
             \/ ExtTryDocling \/ ExtExhausted \/ ExtAgain

InitExt == ExtInit /\ AdvIdle /\ DocIdle /\ SplitIdle /\ CtxIdle /\ SvcIdle /\ RouteIdle /\ StoreQuiet /\ RetryIdle

SpecExt == InitExt /\ [][NextExt]_vars

\* the event loop resumes a call that can go on
SpecExtFair == SpecExt /\ WF_vars(NextExt)

\* the stored files process() is run on: name and content
AdvFiles == {<<"b.txt", <<600, 900>> >>, <<"b.txt", <<>> >>,
             <<"a.pdf", <<600>> >>, <<"c.bin", <<>> >>}

AdvInit ==
    /\ AdvIdle
    /\ ExtIdle
    /\ DocIdle
    /\ SplitIdle
    /\ CtxIdle
    /\ SvcIdle
    /\ RouteIdle
    /\ StoreQuiet
    /\ RetryIdle
    /\ \E f \in AdvFiles : fileName = f[1] /\ fileContent = f[2]

NextAdv == AdvBegin \/ AdvMark \/ AdvRead \/ ExtStart \/ ExtTryCloud
             \/ ExtCloudSilent
             \/ ExtTryDocker \/ ExtTryPython \/ ExtTryDocling \/ ExtExhausted
             \/ AdvChunks \/ AdvProbe \/ AdvEnsure \/ AdvBatch \/ AdvBatchesDone
             \/ AdvComplete \/ AdvSave \/ AdvCount \/ AdvFailSave \/ AdvSearch

SpecAdv == AdvInit /\ [][NextAdv]_vars

\* The chunkers on their own
InitSplit ==
    /\ SplitIdle /\ ExtIdle /\ AdvIdle /\ DocIdle /\ CtxIdle /\ SvcIdle /\ RouteIdle /\ StoreQuiet /\ RetryIdle
    /\ fileName = "b.txt" /\ fileContent = <<>>

NextSplit == SplitFixedCall \/ SplitFixedStep \/ SplitFixedReturn
               \/ ChunkTextCall \/ ChunkTextStep \/ ChunkTextReturn
               \/ CreateChunksCall \/ CreateChunksStep \/ CreateChunksReturn
               \/ SplitTextCall \/ SplitForget

SpecSplit == InitSplit /\ [][NextSplit]_vars

\* Context generation on its own
InitCtx ==
    /\ CtxIdle /\ SplitIdle /\ ExtIdle /\ AdvIdle /\ DocIdle /\ SvcIdle /\ RouteIdle /\ StoreQuiet /\ RetryIdle
    /\ fileName = "b.txt" /\ fileContent = <<>>

NextCtx == GenerateEnhancedContext \/ ProcessFileAttachments \/ CtxReturn

SpecCtx == InitCtx /\ [][NextCtx]_vars

\* The simple service under concurrent uploads and deletes
InitSvc ==
    /\ SvcIdle /\ CtxIdle /\ SplitIdle /\ ExtIdle /\ AdvIdle /\ DocIdle /\ RouteIdle /\ StoreQuiet /\ RetryIdle
    /\ fileName = "b.txt" /\ fileContent = <<>>

NextSvc == UploadDocumentCall \/ DeleteDocumentCall \/ Initialize
             \/ UploadTakeArray \/ UploadPipeline \/ UploadPush
             \/ UploadReadMetadata \/ UploadWriteMetadata
             \/ DeleteChunks \/ DeleteReadMetadata \/ DeleteWriteMetadata
             \/ DeleteFile

SpecSvc == InitSvc /\ [][NextSvc]_vars

\* The process route on one stored file
InitRoute ==
    /\ RouteIdle /\ SvcIdle /\ CtxIdle /\ SplitIdle /\ ExtIdle /\ AdvIdle /\ DocIdle /\ StoreQuiet /\ RetryIdle
    /\ \E f \in AdvFiles : fileName = f[1] /\ fileContent = f[2]

NextRoute == Post \/ RouteRead \/ RouteMark \/ RouteExtract \/ RouteSave
               \/ RouteFailSave \/ RouteAnswered

SpecRoute == InitRoute /\ [][NextRoute]_vars

\* The storage module on its own
InitStore ==
    /\ StoreIdle /\ RetryIdle
    /\ RouteIdle /\ SvcIdle /\ CtxIdle /\ SplitIdle /\ ExtIdle /\ AdvIdle /\ DocIdle
    /\ fileName = "b.txt" /\ fileContent = <<>>

NextStore == StoreFile \/ EnsureUploadDirectory \/ ReadFile \/ DeleteStoredFile

SpecStore == InitStore /\ [][NextStore]_vars

\* addFileToChatEnhanced on its own, one call after another
InitRetry ==
    /\ RetryIdle /\ StoreQuiet
    /\ RouteIdle /\ SvcIdle /\ CtxIdle /\ SplitIdle /\ ExtIdle /\ AdvIdle /\ DocIdle
    /\ fileName = "b.txt" /\ fileContent = <<>>

NextRetry == AddFileToChatEnhanced \/ AddAttempt \/ AddReturn \/ AddForget

SpecRetry == InitRetry /\ [][NextRetry]_vars

----------------------------------------------------------------------------
(* C2: the extraction chain never throws; when the basic fallback itself   *)
(* fails the chain returns exactly one diagnostic element naming the file. *)
ChainNeverThrows ==
    /\ ~xthrew
    /\ (xpc = "done" /\ xfb = "threw") =>
          /\ Len(elements) = 1
          /\ elements[1].tag = "diagnostic"
          /\ elements[1].error
          /\ elements[1].file = fileName

\* every method of a full chain failed, the basic fallback included
TotalFailureReturned ==
    /\ xpc = "done"
    /\ xfb = "threw"
    /\ {"docker", "python", "docling", "fallback"} \subseteq failures
    /\ Len(elements) = 1

(* C3 as stated: a failed cloud request is followed by an attempt of the   *)
(* local Docker API, methods run in chain order, the basic fallback only   *)
(* after every enabled method failed.                                      *)
ChainOrder == <<"cloud", "docker", "python", "docling", "fallback">>
Rank(m) == CHOOSE k \in 1..Len(ChainOrder) : ChainOrder[k] = m

CloudFailureAdvancesToDocker ==
    /\ \A a, b \in 1..Len(attempts) :
          a < b => Rank(attempts[a]) < Rank(attempts[b])
    /\ (xpc = "done" /\ "cloud" \in failures) => "docker" \in Range(attempts)
    /\ (xpc = "done" /\ "fallback" \in Range(attempts) /\ methods # <<>>)
          => Range(methods) \subseteq failures

(* C1 as stated, for the first processing run of a file: the              *)
(* processingStatus of the FileAttachment object and of its Redis record  *)
(* never leaves completed or failed and never goes back to pending.       *)
StatusStep(a, b) ==
    /\ a = "completed" => b = "completed"
    /\ a = "failed" => b = "failed"
    /\ a = "processing" => b # "pending"

StatusNeverRegresses ==
    [][(runNo = 1 /\ runNo' = 1) =>
          /\ StatusStep(file.status, file'.status)
          /\ StatusStep(redis.status, redis'.status)]_vars

(* C10: when the availability probe failed, process() returns one vector  *)
(* record with an empty embedding per chunk, makes no createCollection or *)
(* upsert call, and (the metadata writes succeeding) ends completed; a    *)
(* search while the store is unreachable returns the empty list and does  *)
(* not throw.                                                             *)
ProbeFailureStillCompletes ==
    /\ (probe = "down") =>
          /\ apc \in {"complete", "save", "count", "failsave", "done"}
          /\ Len(vectors) = Len(documentChunks)
          /\ \A k \in 1..Len(vectors) :
                vectors[k].dim = 0 /\ vectors[k].chunkId = documentChunks[k].id
          /\ qcalls.createCollection = 0
          /\ qcalls.upsert = 0
    /\ (probe = "down" /\ apc = "done" /\ ~redisFailed) =>
          /\ returned = "value"
          /\ file.status = "completed"
          /\ redis.status = "completed"
    /\ (searchResult.run > 0 /\ ~searchResult.storeUp) =>
          /\ ~searchResult.threw
          /\ searchResult.hits = <<>>

CompletedWithPlaceholders ==
    /\ apc = "done"
    /\ probe = "down"
    /\ returned = "value"
    /\ redis.status = "completed"
    /\ Len(vectors) > 0
    /\ searchResult.run = runNo
    /\ ~searchResult.storeUp

----------------------------------------------------------------------------
(* Storing the vectors of a file *)

Stored(chunk) == \E p \in points : p.chunkId = chunk.id
InVectors(chunk) == \E k \in 1..Len(vectors) : vectors[k].chunkId = chunk.id

\* C11 as stated: when process() returns with the file completed and the
\* vector store was available, every chunk is stored in the collection, or
\* the returned vectors leave out the chunks that are not.
NoFalseCompletion ==
    (apc = "done" /\ returned = "value" /\ probe = "up"
        /\ file.status = "completed") =>
        \A k \in 1..Len(documentChunks) :
            Stored(documentChunks[k]) \/ ~InVectors(documentChunks[k])

BatchStarts == {b \in 0..(Len(documentChunks) - 1) : b % batchSize = 0}

\* C12: with the vector store available, storeDocumentChunks goes through
\* every batch whatever fails in one of them: a batch is embedded as a whole
\* or skipped as a whole, the call returns, and the file only fails when a
\* Redis write does.
BatchFailureIsolated ==
    /\ (probe = "up" /\ apc \in {"complete", "save", "count", "done", "failsave"}) =>
          /\ bi >= Len(documentChunks)
          /\ \A b \in BatchStarts :
                \/ \A k \in (b + 1)..Min(b + batchSize, Len(documentChunks)) :
                      InVectors(documentChunks[k])
                \/ \A k \in (b + 1)..Min(b + batchSize, Len(documentChunks)) :
                      ~InVectors(documentChunks[k]) /\ ~Stored(documentChunks[k])
          /\ file.status = "failed" => redisFailed
    /\ (probe = "up" /\ apc = "batch") => (returned = "none" /\ file.status = "processing")

\* the first batch was not stored, the second was, and the file completed
LaterBatchStored ==
    /\ apc = "done" /\ returned = "value" /\ probe = "up"
    /\ redis.status = "completed"
    /\ Len(documentChunks) > batchSize
    /\ ~Stored(documentChunks[1])
    /\ Stored(documentChunks[batchSize + 1])
    /\ InVectors(documentChunks[batchSize + 1])


\* the chain of cloud API and Docker API has returned and every request it
\* made failed
CloudAndDockerFailed ==
    /\ apc = "extract" /\ xpc = "done"
    /\ methods = <<"cloud", "docker">>
    /\ Range(attempts) \cap {"cloud", "docker"} # {}
    /\ Range(attempts) \cap {"cloud", "docker"} \subseteq failures

\* C13: when the chain has only the cloud API and the Docker API and every
\* request it made failed, it returns what the basic fallback returns; for a
\* text file with content these are content chunks, at least one, and when
\* process() returns the file is completed with that chunk count in Redis.
FallsThroughToFallback ==
    [][/\ (CloudAndDockerFailed /\ IsTextFile(fileName) /\ HasText(fileContent))
          => /\ attempts[Len(attempts)] = "fallback"
             /\ xfb = "ok" =>
                   /\ Len(documentChunks') > 0
                   /\ \A k \in 1..Len(documentChunks') :
                         documentChunks'[k].tag = "content"
       /\ (returned' = "value") =>
             /\ file'.status = "completed"
             /\ redis'.status = "completed"
             /\ redis'.chunkCount = Len(documentChunks')
             /\ documentChunks' = documentChunks]_vars

\* the fallback has answered for a text file with content after the failures
FallbackAnsweredTextFile ==
    /\ CloudAndDockerFailed
    /\ IsTextFile(fileName) /\ HasText(fileContent)
    /\ xfb = "ok"
    /\ attempts = <<"cloud", "fallback">>
    /\ Len(elements) > 0

----------------------------------------------------------------------------
(* Search over the stored documents *)

\* every stored chunk vector of the chat, as <<document, chunk>> positions
StoredChunks == {<<d, k>> \in (1..Len(store)) \X (1..LongLen) :
                    store[d].hasChunks /\ k <= Len(store[d].chunks)}

StoredDim(dk) == store[dk[1]].chunks[dk[2]].embedding.dim

AdvancedSearched == result.service = "advanced" /\ result.embedded

\* C4: AdvancedDocumentService.searchDocuments returns no chunk whose stored
\* vector is of another length than the query vector, and a query vector of
\* length 1536 over chunks that are all of length 384 is answered by the
\* empty list, without an exception.
MismatchedVectorsExcluded ==
    AdvancedSearched =>
        /\ \A k \in 1..Len(result.hits) : result.hits[k].veclen = result.qdim
        /\ (/\ result.qdim = CloudDim
            /\ \A dk \in StoredChunks : StoredDim(dk) = LocalDim)
              => (result.hits = <<>> /\ ~result.threw)

\* a 1536-long query vector has met a stored 384-long vector of the very
\* text that was asked for, and nothing was returned
CloudQueryOverLocalCorpus ==
    /\ AdvancedSearched
    /\ result.qdim = CloudDim
    /\ result.limit > 0
    /\ \E dk \in StoredChunks : /\ StoredDim(dk) = LocalDim
                                /\ store[dk[1]].chunks[dk[2]].content = 1
    /\ \A dk \in StoredChunks : StoredDim(dk) = LocalDim
    /\ result.hits = <<>>
    /\ ~result.threw

\* the place of a hit in the scan: the document, then the chunk in it
ScanBefore(a, b) ==
    a.pos < b.pos \/ (a.pos = b.pos /\ a.chunk_index < b.chunk_index)

ToolResultsAboveFloor ==
    \A k \in 1..Len(result.results) : result.results[k].similarity >= Floor

\* C8: the query vector of searchDocuments is as long as the stored vector of
\* every chunk of the chat it is compared with.
QueryMatchesStoredProvider ==
    AdvancedSearched => \A dk \in StoredChunks : StoredDim(dk) = result.qdim

----------------------------------------------------------------------------
(* Embedding *)

\* C7: the vectors of one getEmbeddings call are one per text, in the order
\* of the texts, and of one length; when a request of the remote API failed
\* they are the local vectors of all the texts.
EmbeddingsShareDimension ==
    (lastEmb.called /\ ~lastEmb.threw) =>
        /\ Len(lastEmb.vecs) = Len(lastEmb.texts)
        /\ \A k, j \in 1..Len(lastEmb.vecs) : lastEmb.vecs[k].dim = lastEmb.vecs[j].dim
        /\ \/ \A k \in 1..Len(lastEmb.vecs) : lastEmb.vecs[k] = LocalVec(lastEmb.texts[k])
           \/ \A k \in 1..Len(lastEmb.vecs) : lastEmb.vecs[k] = CloudVec(lastEmb.texts[k])
        /\ (lastEmb.cloud /\ lastEmb.failAt # 0) =>
              \A k \in 1..Len(lastEmb.vecs) : lastEmb.vecs[k] = LocalVec(lastEmb.texts[k])

\* the second request of a call failed after the first had succeeded
SecondBatchFailed ==
    /\ lastEmb.called
    /\ ~lastEmb.threw
    /\ lastEmb.cloud
    /\ lastEmb.batches = 2
    /\ lastEmb.failAt = 2
    /\ Len(lastEmb.vecs) = LongLen

\* C9: the embedding_dims of a stored document is the length of every stored
\* chunk vector of that document.
EmbeddingDimsMatchesChunks ==
    \A dk \in StoredChunks : StoredDim(dk) = store[dk[1]].embedding_dims

\* a cloud-mode upload fell back to the local model and its document is stored
FallbackUploadStored ==
    /\ lastEmb.called
    /\ lastEmb.cloud
    /\ lastEmb.failAt # 0
    /\ ~lastEmb.threw
    /\ \E d \in 1..Len(store) :
          /\ store[d].hasChunks
          /\ store[d].embedding_dims = LocalDim
          /\ [k \in 1..Len(store[d].chunks) |-> store[d].chunks[k].content] = lastEmb.texts


----------------------------------------------------------------------------
(* Chunking *)

\* an iteration of the loop of the chunker name
Iteration(name) == fn = name /\ spc = "loop" /\ iters' = iters + 1

\* C14 as stated: in splitFixed the start offset is larger after every
\* iteration of the loop, the one that reaches the end of the content
\* included, and the loop is left after at most one iteration for every
\* maxSize - overlap characters of the content, plus one.
SplitFixedAdvances ==
    [][/\ Iteration("splitFixed") => start' > start
       /\ fn' = "splitFixed" =>
             iters' <= (text'.len \div (splitMaxChunkSize - splitOverlap)) + 1]_vars

\* C15 as stated: in createChunks the start index is larger after every
\* iteration of the loop, the one that reaches the end of the text and the
\* ones whose end index is a space before the window's end included.
CreateChunksAdvances ==
    [][Iteration("createChunks") => start' > start]_vars

Positions(iv) == [i \in 1..IvLen(iv) |-> iv.from + i - 1]
DropFirst(s, n) == SubSeq(s, n + 1, Len(s))

\* the first chunk followed by every later chunk without its first n
\* characters
RECURSIVE LaterChunks(_, _, _)
LaterChunks(cs, k, n) ==
    IF k > Len(cs) THEN <<>>
    ELSE DropFirst(Positions(cs[k]), n) \o LaterChunks(cs, k + 1, n)

Reconstructed(cs, n) ==
    IF cs = <<>> THEN <<>> ELSE Positions(cs[1]) \o LaterChunks(cs, 2, n)

\* C16: chunkText advances its start by chunkSize - overlap on every
\* iteration and so ends within one iteration per 800 characters; its chunks
\* are in order, none longer than chunkSize, and the first chunk followed by
\* the later chunks without their first overlap characters is the text.
ChunkTextReconstructs ==
    fn = "chunkText" =>
        /\ start = iters * (chunkSize - chunkOverlap)
        /\ iters <= (text.len + chunkSize - chunkOverlap - 1)
                       \div (chunkSize - chunkOverlap)
        /\ Len(chunkList) = iters
        /\ \A k \in 1..Len(chunkList) : IvLen(chunkList[k]) <= chunkSize
        /\ \A k \in 1..(Len(chunkList) - 1) : chunkList[k].from < chunkList[k + 1].from
        /\ spc = "done" =>
              Reconstructed(chunkList, chunkOverlap)
                 = Positions([from |-> 0, to |-> text.len])

\* chunkText returned three chunks, the last one shorter than the overlap
ShortLastChunk ==
    /\ fn = "chunkText" /\ spc = "done"
    /\ Len(chunkList) = 3
    /\ IvLen(chunkList[3]) < chunkOverlap
    /\ IvLen(chunkList[3]) > 0

\* the paragraphs, or for the code strategy the lines, of the text
UnitsOf(content, strategy) ==
    IF strategy = "code" THEN SplitBy(content, LineMatch(content))
    ELSE SplitBy(content, ParaMatch(content))

\* C17 as stated: a chunk of the semantic, markdown or code strategy is no
\* longer than the maximum size given to the strategy, unless it is one
\* paragraph (one line) that is longer than that by itself.
ChunksWithinMaxSize ==
    (spc = "done" /\ fn \in {"semantic", "markdown", "code"}) =>
        \A k \in 1..Len(chunkList) :
            \/ StrLen(chunkList[k]) <= MaxSizeOf(fn)
            \/ \E j \in 1..Len(UnitsOf(text, fn)) :
                  /\ chunkList[k] = Trim(UnitsOf(text, fn)[j])
                  /\ StrLen(UnitsOf(text, fn)[j]) > MaxSizeOf(fn)

WordsOf(s) == SelectSeq(s, LAMBDA t : t.k = "w")
IsSuffix(a, b) == Len(a) <= Len(b) /\ SubSeq(b, Len(b) - Len(a) + 1, Len(b)) = a

\* three paragraphs of 600, 400 and 900 characters
IsScenarioA(content) ==
    LET paragraphs == SplitBy(content, ParaMatch(content)) IN
    /\ Len(paragraphs) = 3
    /\ StrLen(paragraphs[1]) = 600
    /\ StrLen(paragraphs[2]) = 400
    /\ StrLen(paragraphs[3]) = 900

\* C18: of three paragraphs of 600, 400 and 900 characters the semantic
\* strategy makes two chunks: paragraph 1, a blank line, paragraph 2; then
\* a tail of the first chunk (its last sentences), ". " and paragraph 3.
ScenarioATwoChunks ==
    (spc = "done" /\ fn = "semantic" /\ IsScenarioA(text)) =>
        LET paragraphs == SplitBy(text, ParaMatch(text))
            second == chunkList[2]
            tail == SubSeq(second, 1, Len(second) - Len(paragraphs[3]) - 2)
        IN /\ Len(chunkList) = 2
           /\ chunkList[1] = paragraphs[1] \o NL \o NL \o paragraphs[2]
           /\ IsSuffix(DOT \o SP \o paragraphs[3], second)
           /\ WordsOf(tail) # <<>>
           /\ IsSuffix(WordsOf(tail), WordsOf(chunkList[1]))

\* the scenario was chunked, the second paragraph being of two sentences
ScenarioAChunked ==
    /\ spc = "done" /\ fn = "semantic"
    /\ IsScenarioA(text)
    /\ text = Paragraphs[1] \o NL \o NL \o Paragraphs[2] \o NL \o NL \o Paragraphs[3]
    /\ Len(chunkList) = 2
    /\ StrLen(chunkList[2]) < StrLen(chunkList[1]) + StrLen(Paragraphs[3])

----------------------------------------------------------------------------
\* generateEnhancedContext has answered, directly or for processFileAttachments
ContextGenerated == cpc = "done" /\ path = "advanced"

\* the context messages of a conversation
ContextPositions(msgs) == {k \in 1..Len(msgs) : msgs[k].id = 0}

\* a conversation without its k-th message
Without(msgs, k) == SubSeq(msgs, 1, k - 1) \o SubSeq(msgs, k + 1, Len(msgs))

(* C19: when the search returns at least one chunk, generateEnhancedContext *)
(* returns the input messages plus exactly one context message, placed at   *)
(* the index immediately before the last user message, every original       *)
(* message kept in order; the context message holds at most 10 chunks.      *)
ContextBeforeLastUser ==
    (ContextGenerated /\ Len(relevantChunks) >= 1) =>
        LET p == LastUserIndex(input)
        IN /\ p >= 1
           /\ Len(enhanced) = Len(input) + 1
           /\ ContextPositions(enhanced) = {p}
           /\ enhanced[p] = ContextMessage(relevantChunks)
           /\ enhanced[p + 1] = input[p]
           /\ Without(enhanced, p) = input
           /\ Len(enhanced[p].content) <= contextLimit
           /\ Len(enhanced[p].content) <= 10

\* more chunks matched than the limit, and the last user message is not the
\* last message: the context message quotes ten chunks and stands second
ContextCappedAtLimit ==
    /\ ContextGenerated
    /\ Len(input) = MaxMsgs
    /\ LastUserIndex(input) = 2
    /\ Len(relevantChunks) = contextLimit
    /\ enhanced[2].id = 0
    /\ enhanced[3].role = "user"

\* no returned chunk scores above the relevance floor
NoneAboveFloor ==
    \A k \in 1..Len(relevantChunks) : relevantChunks[k].score <= Floor

(* C20: generateEnhancedContext passes the conversation through unmodified  *)
(* (same messages, same order, nothing inserted, input array not mutated)   *)
(* when there are no file ids, no user message, the search fails or returns *)
(* nothing, or no returned chunk scores above the relevance floor 0.2.      *)
PassedThroughUnlessQualified ==
    (/\ ContextGenerated
     /\ \/ Len(fileIds) = 0
        \/ LastUserIndex(input) = 0
        \/ Len(relevantChunks) = 0
        \/ NoneAboveFloor) =>
        /\ enhanced = input
        /\ messages = input
        /\ ContextPositions(enhanced) = {}

----------------------------------------------------------------------------
\* no call of the simple service is in progress
Quiet == \A t \in Tasks : tasks[t].op = "none"

\* the chunks of document d in an array
ChunksOf(chunks, d) == {k \in 1..Len(chunks) : chunks[k].document_id = d}

\* every chunk of the array has a record, every record counts its chunks
Consistent(chunks, records) ==
    /\ \A k \in 1..Len(chunks) : chunks[k].document_id \in DocumentIds(records)
    /\ \A r \in records : r.chunk_count = Cardinality(ChunksOf(chunks, r.id))

(* C21: after any interleaving of uploadDocument calls on one chat (first   *)
(* use of the chat included), every stored chunk's document_id has a        *)
(* Document record in the chat's metadata and every record's chunk_count    *)
(* equals the number of stored chunks of that document.                     *)
ChunksMatchRecords ==
    (Quiet /\ deleted = {}) =>
        /\ Consistent(InMemory, metadataFile)
        /\ Consistent(chunksFile, metadataFile)

(* C22: after deleteDocument(d, chat) has completed, no chunk of d and no   *)
(* metadata record for d exists in the chat's store, in memory or on disk,  *)
(* also when an uploadDocument to the chat was in progress during the       *)
(* delete.                                                                  *)
DeletedTogether ==
    \A d \in deleted :
        /\ ChunksOf(InMemory, d) = {}
        /\ ChunksOf(chunksFile, d) = {}
        /\ d \notin DocumentIds(metadataFile)

(* C24: the local embedding model is initialized single-flight: with        *)
(* concurrent embedding calls before the model is loaded, pipeline(...) is  *)
(* invoked exactly once and every caller uses that one instance.            *)
SingleFlight ==
    /\ pipelineCalls <= 1
    /\ Cardinality(used) <= 1

----------------------------------------------------------------------------
\* the process() run that wrote a point: chunk ids are made anew in each run
WrittenBy(p) == p.chunkId[1]

(* C23: after a second process() run of the same file the vector store     *)
(* holds for that file only the points written by the second run; every    *)
(* point of the first run has been removed or overwritten.                 *)
ReprocessReplaces ==
    (apc = "done" /\ returned = "value" /\ runNo >= 2) =>
        \A p \in points : WrittenBy(p) = runNo

----------------------------------------------------------------------------
\* a step that stores the status failed
StoresFailed == redis'.status = "failed" /\ redis' # redis

\* process() is in its catch with the error it caught on the file object
ProcessCaught == apc = "failsave" /\ file.status = "failed"

\* request r is in the route's catch with the error it caught on its object
RouteCaught(r) ==
    posts[r].pc = "failsave" /\ posts[r].fileAttachment.status = "failed"

(* C25: whenever a file's persisted processingStatus is 'failed', its       *)
(* persisted error field holds the non-empty message of the last error      *)
(* observed during that processing run: the status failed is stored only by *)
(* a catch, together with the message it caught.                            *)
FailedCarriesLastError ==
    /\ [](redis.status = "failed" => redis.error # "")
    /\ [][StoresFailed =>
            \/ ProcessCaught /\ redis'.error = file.error
            \/ \E r \in Requests :
                 /\ RouteCaught(r) /\ posts'[r].pc = "done"
                 /\ redis'.error = posts[r].fileAttachment.error]_vars

\* a second run has failed on a missing file and its catch has stored that
FailureStoredAgain ==
    /\ apc = "done" /\ returned = "threw" /\ runNo = 2 /\ ~redisFailed
    /\ redis.status = "failed"
    /\ redis.error = "ENOENT"
    /\ file.error = "ENOENT"

\* the answer the route gives for a stored completed or failed file
StoredAnswer(r) ==
    IF r.status = "completed"
    THEN [code |-> 200, status |-> "completed", error |-> "",
          message |-> "File already processed"]
    ELSE [code |-> 422, status |-> "failed",
          error |-> IF r.error # "" THEN r.error ELSE "Processing previously failed",
          message |-> ""]

\* request r has read the file's metadata in this step
HasRead(r) == posts[r].pc = "read" /\ posts'[r].read # ""

(* C27: POST /api/attachments/process never starts processing for a file    *)
(* whose stored status is completed or failed: it leaves the stored         *)
(* metadata unchanged and only reports the stored status (completed with    *)
(* 'File already processed', or failed with the stored error).              *)
CompletedAndFailedSkipped ==
    /\ [](\A r \in Requests :
            posts[r].read \in {"completed", "failed"} =>
                /\ posts[r].pc = "done"
                /\ ~posts[r].wrote
                /\ ~posts[r].ran)
    /\ [][\A r \in Requests :
            (HasRead(r) /\ redis.status \in {"completed", "failed"}) =>
                /\ redis' = redis
                /\ posts'[r].pc = "done"
                /\ posts'[r].response = StoredAnswer(redis)]_vars

\* an earlier request has failed on a missing file; this one is answered
\* with the stored error
FailedFileReported ==
    \E r \in Requests :
        /\ posts[r].pc = "done"
        /\ posts[r].read = "failed"
        /\ redis.status = "failed" /\ redis.error = "ENOENT"
        /\ posts[r].response.code = 422
        /\ posts[r].response.error = "ENOENT"

\* the requests whose call of fileProcessor.process has not returned
RunsInProgress == {r \in Requests : posts[r].pc \in {"extract", "hung"}}

(* C28: for a given file id at most one processing run is in progress at    *)
(* any time: a POST that arrives while the stored status is 'processing',   *)
(* or concurrently with another POST that also read 'pending', does not     *)
(* start a second run of the file processor.                                *)
OneRunAtATime == Cardinality(RunsInProgress) <= 1

----------------------------------------------------------------------------
(* C26: every extraction attempt is time-boxed: a cloud API or Docker API  *)
(* that never responds counts as a failure of that method only and the      *)
(* chain proceeds, so processDocumentWithUnstructured always eventually     *)
(* returns.                                                                 *)
ChainEventuallyReturns == (xpc = "loop") ~> (xpc = "done")

----------------------------------------------------------------------------
(* C29: every file stored by storeFile stays readable: from the return of  *)
(* storeFile until deleteFile is called for it, readFile on its attachment  *)
(* returns the stored bytes, on disk or in memory, whatever later storeFile *)
(* or ensureUploadDirectory failures switch the module to in-memory mode.   *)
ReadableUntilDeleted ==
    lastRead.id # 0 => (lastRead.ok /\ lastRead.bytes = lastRead.stored)

\* the attempts of the current call that succeeded
Succeeded == {k \in 1..Len(tried) : tried[k] = "ok"}

(* C30: addFileToChatEnhanced makes at most 3 attempts, stops at the first  *)
(* attempt in which both the set-add and the chat meta write succeed,       *)
(* returns true exactly when such an attempt occurred, returns false after  *)
(* 3 failed attempts, and never throws.                                     *)
RetriesBounded ==
    /\ Len(tried) <= 3
    /\ Succeeded \subseteq {Len(tried)}
    /\ answer # "threw"
    /\ rpc = "done" =>
         /\ answer \in {"true", "false"}
         /\ answer = "true" <=> Succeeded # {}
         /\ (Len(tried) = 3 /\ Succeeded = {}) => answer = "false"
    /\ (rpc = "loop" /\ Succeeded = {} /\ Len(tried) < 3) => Retrying

\* the third attempt succeeded after a failed set-add and a failed meta write
ThirdAttemptSucceeded ==
    /\ rpc = "done"
    /\ tried = <<"sadd", "hmset", "ok">>
    /\ answer = "true"
    /\ fileId \in chatFiles /\ chatMeta

====
